---- MODULE Spec2Model ----
(***************************************************************************)
(* Model of the Nugget Depot app-proxy server (src/server.js): the proxy   *)
(* signature verifier, the signed session cookie, the Session Bridge       *)
(* middleware, the effective-value accessors, the bucketed timeline reader *)
(* with its pagination cursor, and the route handlers' response paths.     *)
(*                                                                         *)
(* Strings of the program are TLA+ strings built with \o.  A query is a    *)
(* function from parameter names to the LIST of values the request carries *)
(* for that name: Express hands a single occurrence to the handler as a    *)
(* string (list of length 1) and a repeated parameter as an array.         *)
(* A token is the list of its "."-separated segments.  The clock (now)     *)
(* counts half-weeks, so that the 7-day session lifetime is 2 units: a     *)
(* request can fall on the mint instant, inside the lifetime, on the       *)
(* expiry instant and after it.                                            *)
(***************************************************************************)
EXTENDS Integers, Sequences, FiniteSets, TLC

VARIABLES
    SHOPIFY_API_SECRET, \* the configured shared secret ("" when unconfigured)
    now,                \* Date.now(), in clock units
    jar,                \* the nd_auth cookie the client holds (<<>>: none)
    mintedAt,           \* history: value of the clock at the last mint (0: never)
    resp,               \* what the last request was and how it was answered
    posts,              \* the rows of posts_v1, in id order (id = position)
    dbNow,              \* NOW() of the database, in ticks
    trav,               \* one client's walk through a bucket's timeline
    pool,               \* TRUE when DATABASE_URL is set (the pg Pool exists)
    dbUp,               \* TRUE while the database answers queries
    post_media,         \* the rows of post_media_v1
    out,                \* how the last request to a proxy route ended
    probe,              \* the last call of a function on its own, with its result
    likes,              \* the rows of likes_v1
    toggles,            \* history: like toggles carried out, per post and customer
    calls,              \* the toggleLike calls in flight, each between two awaits
    comments,           \* the rows of comments_v1, in id order
    profiles,           \* the rows of profiles_v2
    follows,            \* the rows of follows_v1
    messages            \* the rows of messages_v1, in id order, each with its media

authVars == <<SHOPIFY_API_SECRET, now, jar, mintedAt, resp>>
feedVars == <<posts, dbNow, trav>>
routeVars == <<pool, dbUp, post_media, out>>
socialVars == <<likes, toggles, calls, comments, profiles, follows, messages>>
vars == <<SHOPIFY_API_SECRET, now, jar, mintedAt, resp, posts, dbNow, trav,
          pool, dbUp, post_media, out, probe, likes, toggles, calls, comments,
          profiles, follows, messages>>

(***************************************************************************)
(* Bounds of the model and constants of the program                        *)
(***************************************************************************)
\* the latest value of the clock
MaxNow == 5

\* 7 * 24 * 60 * 60 * 1000 ms, in clock units
SESSION_TTL == 2

PlatformSecret == "k1"      \* the secret the platform signs with
AttackerSecret == "evil"    \* a key a forger can pick

DEFAULT_BASE == "/apps/nuggetdepot"

Customers == {"c1", "c2"}
Shops == {"s1", "s2"}

\* values a path_prefix parameter is drawn from; the second set is those that
\* satisfy String.prototype.startsWith("/")
PathPrefixes == {"/apps/gn", "gn"}
SlashPrefixed == {"/apps/gn", DEFAULT_BASE}

StartsWithSlash(p) == p \in SlashPrefixed

(***************************************************************************)
(* Query parameters                                                        *)
(***************************************************************************)
\* Object.keys(query).sort(): the parameter names of the model, ascending
SortedKeys == <<"logged_in_customer_id", "path_prefix", "shop", "signature", "timestamp">>

\* typeof req.query[k] === "string" ? req.query[k] : ""
StrParam(query, k) ==
    IF k \in DOMAIN query /\ Len(query[k]) = 1 THEN query[k][1] ELSE ""

RECURSIVE JoinComma(_)
\* Array.prototype.join(","), and String(val) for a single value
JoinComma(vals) ==
    IF Len(vals) = 0 THEN ""
    ELSE IF Len(vals) = 1 THEN vals[1]
    ELSE vals[1] \o "," \o JoinComma(Tail(vals))

RECURSIVE BuildFrom(_, _)
BuildFrom(query, i) ==
    IF i > Len(SortedKeys) THEN ""
    ELSE IF SortedKeys[i] \in DOMAIN query
         THEN SortedKeys[i] \o "=" \o JoinComma(query[SortedKeys[i]])
              \o BuildFrom(query, i + 1)
         ELSE BuildFrom(query, i + 1)

buildProxyMessage(query) == BuildFrom(query, 1)

\* crypto.createHmac("sha256", key).update(msg).digest("hex"), symbolically:
\* equal digests exactly for equal (key, msg)
HmacHex(key, msg) == "hmac<" \o key \o ">" \o msg

\* delete query.signature
WithoutSignature(query) ==
    [k \in DOMAIN query \ {"signature"} |-> query[k]]

\* verifyShopifyProxy treating an unconfigured secret as "nothing to check"
verifyShopifyProxyRun_skipUnconfigured(req) ==
    LET signature == StrParam(req.query, "signature") IN
    IF SHOPIFY_API_SECRET = "" THEN [ok |-> TRUE, hmac |-> FALSE]
    ELSE IF signature = "" THEN [ok |-> FALSE, hmac |-> FALSE]
    ELSE [ok |-> HmacHex(SHOPIFY_API_SECRET,
                         buildProxyMessage(WithoutSignature(req.query))) = signature,
          hmac |-> TRUE]

\* one run of verifyShopifyProxy: what it returns (ok) and whether it got as
\* far as crypto.createHmac (hmac)
verifyShopifyProxyRun(req) ==
    IF SHOPIFY_API_SECRET = "" THEN [ok |-> FALSE, hmac |-> FALSE]
    ELSE LET signature == StrParam(req.query, "signature") IN
         IF signature = "" THEN [ok |-> FALSE, hmac |-> FALSE]
         ELSE [ok |-> HmacHex(SHOPIFY_API_SECRET,
                              buildProxyMessage(WithoutSignature(req.query))) = signature,
               hmac |-> TRUE]

verifyShopifyProxy(req) == verifyShopifyProxyRun(req).ok

(***************************************************************************)
(* Signed cookie session                                                   *)
(***************************************************************************)
\* JSON.stringify of a session payload, fields in the order signSession's
\* caller writes them
JsonKeys == <<"customer_id", "shop", "path_prefix", "exp">>

JsonMember(obj, k) ==
    "\"" \o k \o "\":"
    \o (IF k = "exp" THEN ToString(obj[k]) ELSE "\"" \o obj[k] \o "\"")

RECURSIVE JsonMembers(_, _, _)
JsonMembers(obj, i, first) ==
    IF i > Len(JsonKeys) THEN ""
    ELSE IF JsonKeys[i] \in DOMAIN obj
         THEN (IF first THEN "" ELSE ",") \o JsonMember(obj, JsonKeys[i])
              \o JsonMembers(obj, i + 1, FALSE)
         ELSE JsonMembers(obj, i + 1, first)

JsonStringify(obj) == "{" \o JsonMembers(obj, 1, TRUE) \o "}"

\* base64url of a string, symbolically: injective, and never the string itself
b64urlEncode(input) == "b64[" \o input \o "]"

\* the payload objects whose encodings the model can meet
PayloadUniverse ==
    [customer_id : Customers, shop : Shops,
     path_prefix : PathPrefixes \cup {DEFAULT_BASE},
     exp : 1..(MaxNow + 2 * SESSION_TTL)]

\* an object without member k
Without(obj, k) == [f \in DOMAIN obj \ {k} |-> obj[f]]

\* objects that lack one of the token's fields
PartialPayloads ==
    {Without([customer_id |-> "c1", shop |-> "s1", path_prefix |-> "/apps/gn",
              exp |-> MaxNow + SESSION_TTL], k) :
        k \in {"customer_id", "shop", "path_prefix", "exp"}}

\* JSON.parse(b64urlDecodeToString(data)) as the inverse of the encoding,
\* tabulated over the objects; any other data decodes to text that JSON.parse
\* rejects or to a value that is not an object
DecodeTable ==
    [d \in {b64urlEncode(JsonStringify(p)) : p \in PayloadUniverse \cup PartialPayloads} |->
        CHOOSE p \in PayloadUniverse \cup PartialPayloads :
            b64urlEncode(JsonStringify(p)) = d]

\* signSession with the MAC computed over the JSON text instead of the encoded data
signSession_macOverJson(payloadObj) ==
    <<b64urlEncode(JsonStringify(payloadObj)),
      HmacHex(SHOPIFY_API_SECRET, JsonStringify(payloadObj))>>

signSession(payloadObj) ==
    LET data == b64urlEncode(JsonStringify(payloadObj)) IN
    <<data, HmacHex(SHOPIFY_API_SECRET, data)>>

\* the request carries no nd_auth cookie
NoCookie == <<>>

\* verifySession's null
NullSession ==
    [valid |-> FALSE, customer_id |-> "", shop |-> "", path_prefix |-> "", exp |-> 0]

\* verifySession's obj (exp 0: the object has no exp)
ValidSession(obj) ==
    [valid |-> TRUE, customer_id |-> obj.customer_id, shop |-> obj.shop,
     path_prefix |-> obj.path_prefix,
     exp |-> IF "exp" \in DOMAIN obj THEN obj.exp ELSE 0]

\* verifySession without the expiry test
verifySessionAt_noExpiry(token, t) ==
    IF SHOPIFY_API_SECRET = "" THEN NullSession
    ELSE IF Len(token) # 2 THEN NullSession
    ELSE IF HmacHex(SHOPIFY_API_SECRET, token[1]) # token[2] THEN NullSession
    ELSE IF token[1] \notin DOMAIN DecodeTable THEN NullSession
    ELSE ValidSession(DecodeTable[token[1]])

\* verifySession at clock value t; token is the cookie's value split on "."
\* (<<>>: no cookie)
\* what it returns (session) and whether it got as far as decoding the
\* payload (decoded)
verifySessionRunAt(token, t) ==
    LET null(d) == [session |-> NullSession, decoded |-> d] IN
    IF SHOPIFY_API_SECRET = "" THEN null(FALSE)
    ELSE IF Len(token) = 0 THEN null(FALSE)
    ELSE IF Len(token) # 2 THEN null(FALSE)
    ELSE LET data == token[1]
             mac == token[2]
             expected == HmacHex(SHOPIFY_API_SECRET, data)
         IN IF expected # mac THEN null(FALSE)
            ELSE IF data \notin DOMAIN DecodeTable THEN null(TRUE)
            ELSE LET obj == DecodeTable[data] IN
                 IF "customer_id" \notin DOMAIN obj \/ obj.customer_id = "" THEN null(TRUE)
                 ELSE IF "shop" \notin DOMAIN obj \/ obj.shop = "" THEN null(TRUE)
                 ELSE IF "path_prefix" \notin DOMAIN obj \/ obj.path_prefix = ""
                      THEN null(TRUE)
                 ELSE IF "exp" \in DOMAIN obj /\ obj.exp # 0 /\ t > obj.exp
                      THEN null(TRUE)
                 ELSE [session |-> ValidSession(obj), decoded |-> TRUE]

verifySessionAt(token, t) == verifySessionRunAt(token, t).session

verifySession(token) == verifySessionAt(token, now)

\* the token setAuthCookie puts in the Set-Cookie header
setAuthCookie(payload) ==
    LET exp == now + SESSION_TTL IN
    signSession([customer_id |-> payload.customer_id, shop |-> payload.shop,
                 path_prefix |-> payload.path_prefix, exp |-> exp])

(***************************************************************************)
(* Effective values                                                        *)
(***************************************************************************)
basePathFromReq(req) ==
    LET p == StrParam(req.query, "path_prefix") IN
    IF p # "" /\ StartsWithSlash(p) THEN p
    ELSE LET session == verifySession(req.cookie)
             sp == session.path_prefix
         IN IF sp # "" /\ StartsWithSlash(sp) THEN sp ELSE DEFAULT_BASE

\* getViewerCustomerId preferring the token to the query parameter
getViewerCustomerId_tokenFirst(req) ==
    LET t == verifySession(req.cookie).customer_id IN
    IF t # "" THEN t
    ELSE StrParam(req.query, "logged_in_customer_id")

getViewerCustomerId(req) ==
    LET q == StrParam(req.query, "logged_in_customer_id") IN
    IF q # "" THEN q
    ELSE verifySession(req.cookie).customer_id

getShop(req) ==
    LET q == StrParam(req.query, "shop") IN
    IF q # "" THEN q
    ELSE verifySession(req.cookie).shop

(***************************************************************************)
(* Auth middleware                                                         *)
(***************************************************************************)
\* requireProxyAuth answering an unverified request with 401
requireProxyAuth_status401(req) ==
    IF SHOPIFY_API_SECRET = ""
    THEN [next |-> FALSE, status |-> 500, body |-> "missing_secret",
          setCookie |-> NoCookie]
    ELSE IF verifyShopifyProxy(req)
    THEN LET shop == StrParam(req.query, "shop")
             customerId == StrParam(req.query, "logged_in_customer_id")
             pathPrefix == IF "path_prefix" \in DOMAIN req.query
                              /\ Len(req.query["path_prefix"]) = 1
                           THEN req.query["path_prefix"][1]
                           ELSE DEFAULT_BASE
         IN [next |-> TRUE, status |-> 0, body |-> "",
             setCookie |->
                IF shop # "" /\ customerId # "" /\ pathPrefix # ""
                THEN setAuthCookie([shop |-> shop, customer_id |-> customerId,
                                    path_prefix |-> pathPrefix])
                ELSE NoCookie]
    ELSE IF verifySession(req.cookie).valid
    THEN [next |-> TRUE, status |-> 0, body |-> "", setCookie |-> NoCookie]
    ELSE [next |-> FALSE, status |-> 401, body |-> "invalid_signature",
          setCookie |-> NoCookie]

\* requireProxyAuth minting without testing the customer identity
requireProxyAuth_mintAnonymous(req) ==
    IF SHOPIFY_API_SECRET = ""
    THEN [next |-> FALSE, status |-> 200, body |-> "missing_secret",
          setCookie |-> NoCookie]
    ELSE IF verifyShopifyProxy(req)
    THEN LET shop == StrParam(req.query, "shop")
             customerId == StrParam(req.query, "logged_in_customer_id")
             pathPrefix == IF "path_prefix" \in DOMAIN req.query
                              /\ Len(req.query["path_prefix"]) = 1
                           THEN req.query["path_prefix"][1]
                           ELSE DEFAULT_BASE
         IN [next |-> TRUE, status |-> 0, body |-> "",
             setCookie |->
                IF shop # "" /\ pathPrefix # ""
                THEN setAuthCookie([shop |-> shop,
                                    customer_id |-> IF customerId = "" THEN "c1"
                                                    ELSE customerId,
                                    path_prefix |-> pathPrefix])
                ELSE NoCookie]
    ELSE IF verifySession(req.cookie).valid
    THEN [next |-> TRUE, status |-> 0, body |-> "", setCookie |-> NoCookie]
    ELSE [next |-> FALSE, status |-> 200, body |-> "invalid_signature",
          setCookie |-> NoCookie]

\* requireProxyAuth re-minting the cookie on the cookie-fallback path
requireProxyAuth_slidingRenewal(req) ==
    IF SHOPIFY_API_SECRET = ""
    THEN [next |-> FALSE, status |-> 200, body |-> "missing_secret",
          setCookie |-> NoCookie]
    ELSE IF verifyShopifyProxy(req)
    THEN LET shop == StrParam(req.query, "shop")
             customerId == StrParam(req.query, "logged_in_customer_id")
             pathPrefix == IF "path_prefix" \in DOMAIN req.query
                              /\ Len(req.query["path_prefix"]) = 1
                           THEN req.query["path_prefix"][1]
                           ELSE DEFAULT_BASE
         IN [next |-> TRUE, status |-> 0, body |-> "",
             setCookie |->
                IF shop # "" /\ customerId # "" /\ pathPrefix # ""
                THEN setAuthCookie([shop |-> shop, customer_id |-> customerId,
                                    path_prefix |-> pathPrefix])
                ELSE NoCookie]
    ELSE IF verifySession(req.cookie).valid
    THEN [next |-> TRUE, status |-> 0, body |-> "",
          setCookie |-> setAuthCookie(verifySession(req.cookie))]
    ELSE [next |-> FALSE, status |-> 200, body |-> "invalid_signature",
          setCookie |-> NoCookie]

\* what requireProxyAuth does with a request: whether next() is called, the
\* status and page it answers with otherwise, and the Set-Cookie it emits
requireProxyAuth(req) ==
    IF SHOPIFY_API_SECRET = ""
    THEN [next |-> FALSE, status |-> 200, body |-> "missing_secret",
          setCookie |-> NoCookie]
    ELSE IF verifyShopifyProxy(req)
    THEN LET shop == StrParam(req.query, "shop")
             customerId == StrParam(req.query, "logged_in_customer_id")
             pathPrefix == IF "path_prefix" \in DOMAIN req.query
                              /\ Len(req.query["path_prefix"]) = 1
                           THEN req.query["path_prefix"][1]
                           ELSE DEFAULT_BASE
         IN [next |-> TRUE, status |-> 0, body |-> "",
             setCookie |->
                IF shop # "" /\ customerId # "" /\ pathPrefix # ""
                THEN setAuthCookie([shop |-> shop, customer_id |-> customerId,
                                    path_prefix |-> pathPrefix])
                ELSE NoCookie]
    ELSE IF verifySession(req.cookie).valid
    THEN [next |-> TRUE, status |-> 0, body |-> "", setCookie |-> NoCookie]
    ELSE [next |-> FALSE, status |-> 200, body |-> "invalid_signature",
          setCookie |-> NoCookie]

(***************************************************************************)
(* Requests of the Session Bridge                                          *)
(***************************************************************************)
\* the lists of values a request can carry for each parameter (<<>>: the
\* parameter is absent)
CustomerParams == {<<>>, <<"">>, <<"c1">>, <<"c2">>}
ShopParams == {<<>>, <<"s1">>, <<"s2">>}
PrefixParams == {<<>>, <<"">>, <<"/apps/gn">>, <<"gn">>}

\* how the request's signature parameter came about
SigModes == {"none", "platform", "stale"}
\* which cookie the request presents
CookieKinds == {"none", "jar", "forged", "tampered"}

MkQuery(c, s, p) ==
    LET all == [k \in {"logged_in_customer_id", "shop", "path_prefix"} |->
                  IF k = "logged_in_customer_id" THEN c
                  ELSE IF k = "shop" THEN s ELSE p]
    IN [k \in {x \in DOMAIN all : Len(all[x]) > 0} |-> all[k]]

WithSignature(q, sig) ==
    [k \in DOMAIN q \cup {"signature"} |-> IF k = "signature" THEN <<sig>> ELSE q[k]]

\* the same query with another customer identity: what a replayed signature
\* was computed over
OtherIdentity(q) ==
    [k \in DOMAIN q \cup {"logged_in_customer_id"} |->
        IF k = "logged_in_customer_id"
        THEN (IF "logged_in_customer_id" \in DOMAIN q
                 /\ q["logged_in_customer_id"] = <<"c2">>
              THEN <<"c1">> ELSE <<"c2">>)
        ELSE q[k]]

SignedQuery(q, mode) ==
    IF mode = "platform"
    THEN WithSignature(q, HmacHex(PlatformSecret, buildProxyMessage(q)))
    ELSE IF mode = "stale"
    THEN WithSignature(q, HmacHex(PlatformSecret, buildProxyMessage(OtherIdentity(q))))
    ELSE q

\* an exp later than any the server writes
FarExp == MaxNow + SESSION_TTL

ForgedPayload ==
    [customer_id |-> "c1", shop |-> "s1", path_prefix |-> "/apps/gn", exp |-> FarExp]

PresentedCookie(kind) ==
    IF kind = "jar" THEN jar.token
    ELSE IF kind = "forged"
    THEN LET data == b64urlEncode(JsonStringify(ForgedPayload))
         IN <<data, HmacHex(AttackerSecret, data)>>
    ELSE IF kind = "tampered"
    THEN <<b64urlEncode(JsonStringify(
              [customer_id |-> jar.obj.customer_id, shop |-> jar.obj.shop,
               path_prefix |-> jar.obj.path_prefix, exp |-> jar.obj.exp + 1])),
           jar.token[2]>>
    ELSE NoCookie

NoJar == [token |-> NoCookie, obj |-> NullSession]

Idle ==
    [kind |-> "idle", at |-> 0, query |-> <<>>, sigMode |-> "none",
     cookieKind |-> "none", cookie |-> NoCookie, held |-> NullSession,
     session |-> NullSession,
     next |-> FALSE, status |-> 0, body |-> "", setCookie |-> NoCookie,
     viewer |-> "", shop |-> "", base |-> ""]

\* the posts and customers of like requests
LikePosts == {1, 2}

\* no toggle carried out yet
NoToggles == [p \in LikePosts |-> [c \in Customers |-> 0]]

\* the toggleLike calls that can be in flight at once
MaxCalls == 3

\* a call slot nobody uses
NoCall == [pc |-> "idle", shop |-> "", post_id |-> 0, customer_id |-> "",
           liked |-> FALSE, overlapped |-> FALSE]

NoCalls == [k \in 1..MaxCalls |-> NoCall]

\* no function called yet
NoProbe == [op |-> "none"]

\* no request to a route yet
NoOut == [route |-> "none", answered |-> FALSE, status |-> 0, location |-> "",
          body |-> ""]

\* no walk in progress
NoTraversal ==
    [phase |-> "idle", shop |-> "", bucket |-> "", limit |-> 0, cursor |-> "",
     seen |-> <<>>, fresh |-> TRUE, issuedN |-> 0,
     page |-> <<>>, pageCursor |-> "", pageIssuedN |-> 0, pageBefore |-> <<>>]

AuthInit ==
    /\ SHOPIFY_API_SECRET \in {"", PlatformSecret}
    /\ now = 1
    /\ jar = NoJar
    /\ mintedAt = 0
    /\ resp = Idle
    /\ posts = <<>>
    /\ dbNow = 0
    /\ trav = NoTraversal
    /\ pool = TRUE
    /\ dbUp = TRUE
    /\ post_media = {}
    /\ out = NoOut
    /\ probe = NoProbe
    /\ likes = {}
    /\ toggles = NoToggles
    /\ calls = NoCalls
    /\ comments = <<>>
    /\ profiles = {}
    /\ follows = {}
    /\ messages = <<>>

\* the clock advances by one unit between two requests
Tick ==
    /\ resp = Idle
    /\ now < MaxNow
    /\ now' = now + 1
    /\ UNCHANGED <<SHOPIFY_API_SECRET, jar, mintedAt, resp>>
    /\ UNCHANGED feedVars
    /\ UNCHANGED routeVars
    /\ UNCHANGED probe
    /\ UNCHANGED socialVars

\* the response has gone out: the server waits for the next request
Respond ==
    /\ resp # Idle
    /\ resp' = Idle
    /\ UNCHANGED <<SHOPIFY_API_SECRET, now, jar, mintedAt>>
    /\ UNCHANGED feedVars
    /\ UNCHANGED routeVars
    /\ UNCHANGED probe
    /\ UNCHANGED socialVars

\* one request through proxy.use(requireProxyAuth) and, when next() is called,
\* into a handler, which starts by reading the effective shop, viewer and base
BridgeRequest(c, s, p, mode, ck) ==
    /\ resp = Idle
    /\ ck \in {"jar", "tampered"} => jar # NoJar
    /\ \E req \in {[query |-> SignedQuery(MkQuery(c, s, p), mode),
                     cookie |-> PresentedCookie(ck)]} :
       \E r \in {requireProxyAuth(req)} :
          /\ resp' = [kind |-> "request", at |-> now, query |-> req.query,
                      sigMode |-> mode, cookieKind |-> ck, cookie |-> req.cookie,
                      held |-> IF ck = "jar" THEN jar.obj ELSE NullSession,
                      session |-> verifySession(req.cookie),
                      next |-> r.next,
                      status |-> r.status,
                      body |-> r.body, setCookie |-> r.setCookie,
                      viewer |-> IF r.next THEN getViewerCustomerId(req) ELSE "",
                      shop |-> IF r.next THEN getShop(req) ELSE "",
                      base |-> IF r.next THEN basePathFromReq(req) ELSE ""]
          /\ jar' = IF r.setCookie # NoCookie
                    THEN [token |-> r.setCookie,
                          obj |-> ValidSession(DecodeTable[r.setCookie[1]])]
                    ELSE jar
          /\ mintedAt' = IF r.setCookie # NoCookie THEN now ELSE mintedAt
    /\ UNCHANGED <<SHOPIFY_API_SECRET, now>>
    /\ UNCHANGED feedVars
    /\ UNCHANGED routeVars
    /\ UNCHANGED probe
    /\ UNCHANGED socialVars

AuthNext ==
    \/ Tick
    \/ Respond
    \/ \E c \in CustomerParams, s \in ShopParams, p \in PrefixParams,
          mode \in SigModes, ck \in CookieKinds : BridgeRequest(c, s, p, mode, ck)

SpecAuth == AuthInit /\ [][AuthNext]_vars

(***************************************************************************)
(* Posts and the bucketed timeline reader                                  *)
(***************************************************************************)
\* String(x || "").toLowerCase().trim() on the bucket names the model meets
LowerTrim(x) ==
    IF x = " Trades " THEN "trades" ELSE x

\* normalizeBucket without its default: the lowered, trimmed input
normalizeBucket_noDefault(x) == LowerTrim(x)

normalizeBucket(x) ==
    LET v == LowerTrim(x) IN
    IF v = "collection" \/ v = "collections" THEN "collection"
    ELSE IF v = "trade" \/ v = "trades" THEN "trades"
    ELSE "feed"

\* what a form or a query string can carry as a bucket name
RawBuckets == {"feed", "collections", " Trades ", "", "junk"}

\* posts_v1.created_at is a TIMESTAMPTZ filled by NOW(): it resolves finer than
\* a millisecond. The database clock counts ticks of 1/TicksPerMs millisecond.
TicksPerMs == 2

\* the row's created_at as the handler sees it: a JavaScript Date, whole
\* milliseconds
JsDate(createdAt) == createdAt \div TicksPerMs

\* a millisecond timestamp as the database reads it back from its ISO string
FromIso(ms) == ms * TicksPerMs

ToISOString(ms) == "2026-01-01T00:00:00.00" \o ToString(ms) \o "Z"

\* (created_at, id) of a sorts strictly before (created_at, id) of b
KeyBelow(aAt, aId, bAt, bId) == aAt < bAt \/ (aAt = bAt /\ aId < bId)

\* createPost: the row INSERT ... RETURNING id appends; id is the BIGSERIAL,
\* created_at the DEFAULT NOW(). asked records the bucket argument.
createPost(rows, clock, shop, customerId, bucket) ==
    Append(rows, [id |-> Len(rows) + 1, shop |-> shop, customer_id |-> customerId,
                  bucket |-> normalizeBucket(bucket), asked |-> bucket,
                  created_at |-> clock])

\* encodeCursor(createdAt, id) on a row the driver returned
encodeCursor(createdAt, id) ==
    IF id = 0 THEN ""
    ELSE b64urlEncode(ToISOString(JsDate(createdAt)) \o "|" \o ToString(id))

\* the customers who write posts
Posters == {"c1"}

MaxPosts == 3
MaxDbNow == 2
MaxLimit == 2

\* every cursor text encodeCursor can produce, with what decodeCursor reads
\* from it: the ISO timestamp (as milliseconds) and the id
CursorTable ==
    LET U == [createdAt : 0..JsDate(MaxDbNow), id : 1..MaxPosts]
        S == {b64urlEncode(ToISOString(c.createdAt) \o "|" \o ToString(c.id)) : c \in U}
    IN [s \in S |->
          CHOOSE c \in U :
              b64urlEncode(ToISOString(c.createdAt) \o "|" \o ToString(c.id)) = s]

NullCursor == [ok |-> FALSE, createdAt |-> 0, id |-> 0, integral |-> TRUE]

\* the ISO text of the newest timestamp a row can carry
NewestIso == ToISOString(JsDate(MaxDbNow))

\* what raw.split("|") gives for cursor texts no encodeCursor call produced:
\* the text before the first "|" and the text after it ("undefined" where raw
\* holds no "|"). Buffer.from(s, "base64") drops the characters outside the
\* alphabet instead of raising.
ForeignCursors ==
    [text \in {"%%%", b64urlEncode("garbage"), b64urlEncode(NewestIso),
               b64urlEncode("not-a-date|1"), b64urlEncode(NewestIso \o "|abc"),
               b64urlEncode(NewestIso \o "|1.5"), b64urlEncode(NewestIso \o "|")} |->
        CASE text = "%%%" -> [iso |-> "", idStr |-> "undefined"]
          [] text = b64urlEncode("garbage") -> [iso |-> "garbage", idStr |-> "undefined"]
          [] text = b64urlEncode(NewestIso) -> [iso |-> NewestIso, idStr |-> "undefined"]
          [] text = b64urlEncode("not-a-date|1") -> [iso |-> "not-a-date", idStr |-> "1"]
          [] text = b64urlEncode(NewestIso \o "|abc") -> [iso |-> NewestIso, idStr |-> "abc"]
          [] text = b64urlEncode(NewestIso \o "|1.5") -> [iso |-> NewestIso, idStr |-> "1.5"]
          [] OTHER -> [iso |-> NewestIso, idStr |-> ""]]

\* new Date(iso): the time is a number only for a text Date can read
NewDate(iso) ==
    IF iso = NewestIso THEN [valid |-> TRUE, ms |-> JsDate(MaxDbNow)]
    ELSE [valid |-> FALSE, ms |-> 0]

\* Number(idStr) on the id texts above: "" is 0, "1.5" is finite and not an
\* integer, the others are NaN
NumberOfIdStr(idStr) ==
    CASE idStr = "1" -> [finite |-> TRUE, integral |-> TRUE, n |-> 1]
      [] idStr = "" -> [finite |-> TRUE, integral |-> TRUE, n |-> 0]
      [] idStr = "1.5" -> [finite |-> TRUE, integral |-> FALSE, n |-> 1]
      [] OTHER -> [finite |-> FALSE, integral |-> FALSE, n |-> 0]

\* decodeCursor: integral is FALSE when id is a number with a fraction
decodeCursor(cursor) ==
    IF cursor = "" THEN NullCursor
    ELSE IF cursor \in DOMAIN CursorTable
    THEN [ok |-> TRUE, createdAt |-> CursorTable[cursor].createdAt,
          id |-> CursorTable[cursor].id, integral |-> TRUE]
    ELSE IF cursor \in DOMAIN ForeignCursors
    THEN LET raw == ForeignCursors[cursor]
             t == NewDate(raw.iso)
             id == NumberOfIdStr(raw.idStr)
         IN IF ~id.finite \/ ~t.valid THEN NullCursor
            ELSE [ok |-> TRUE, createdAt |-> t.ms, id |-> id.n,
                  integral |-> id.integral]
    ELSE NullCursor

\* ORDER BY created_at DESC, id DESC LIMIT n over the rows with ids in S
RECURSIVE OrderDescLimit(_, _, _)
OrderDescLimit(rows, S, n) ==
    IF S = {} \/ n = 0 THEN <<>>
    ELSE LET top == CHOOSE i \in S : \A j \in S \ {i} :
                        KeyBelow(rows[j].created_at, rows[j].id,
                                 rows[i].created_at, rows[i].id)
         IN <<top>> \o OrderDescLimit(rows, S \ {top}, n - 1)

\* the cursor clause with <= on the id
CursorClause_inclusive(row, cursor) ==
    (cursor.ok /\ cursor.id # 0) =>
        KeyBelow(row.created_at, row.id, FromIso(cursor.createdAt), cursor.id + 1)

\* the WHERE clause of listBucketPostsWithMeta
CursorClause(row, cursor) ==
    (cursor.ok /\ cursor.id # 0) =>
        KeyBelow(row.created_at, row.id, FromIso(cursor.createdAt), cursor.id)

\* the bucket condition left out
BucketMatches_any(row, b) == TRUE

\* p.bucket = $2
BucketMatches(row, b) == row.bucket = b

\* listBucketPostsWithMeta({shop, bucket, limit, cursor}) over the rows of
\* posts_v1: the ids of the page, newest first, and the next cursor. threw is
\* TRUE when pool.query rejects and the error leaves the function: the
\* database does not answer, or $5 is a number the server cannot read as the
\* BIGINT it compares with p.id.
listBucketPostsWithMeta(rows, shop, bucket, limit, cursor) ==
    IF ~pool THEN [posts |-> <<>>, nextCursor |-> "", threw |-> FALSE]
    ELSE IF ~dbUp \/ (cursor.ok /\ cursor.id # 0 /\ ~cursor.integral)
    THEN [posts |-> <<>>, nextCursor |-> "", threw |-> TRUE] ELSE
    LET b == normalizeBucket(bucket)
        S == {i \in 1..Len(rows) :
                 /\ rows[i].shop = shop
                 /\ BucketMatches(rows[i], b)
                 /\ CursorClause(rows[i], cursor)}
        page == OrderDescLimit(rows, S, limit)
    IN [posts |-> page,
        nextCursor |-> IF Len(page) = limit
                       THEN encodeCursor(rows[page[Len(page)]].created_at,
                                         rows[page[Len(page)]].id)
                       ELSE "",
        threw |-> FALSE]

(***************************************************************************)
(* The timeline as a state machine: posts are created while a client pages *)
(* through one bucket of one shop                                          *)
(***************************************************************************)
FeedInit ==
    /\ SHOPIFY_API_SECRET = PlatformSecret
    /\ now = 1
    /\ jar = NoJar
    /\ mintedAt = 0
    /\ resp = Idle
    /\ posts = <<>>
    /\ dbNow = 0
    /\ trav = NoTraversal
    /\ pool = TRUE
    /\ dbUp = TRUE
    /\ post_media = {}
    /\ out = NoOut
    /\ probe = NoProbe
    /\ likes = {}
    /\ toggles = NoToggles
    /\ calls = NoCalls
    /\ comments = <<>>
    /\ profiles = {}
    /\ follows = {}
    /\ messages = <<>>

\* the database clock advances
DbTick ==
    /\ dbNow < MaxDbNow
    /\ dbNow' = dbNow + 1
    /\ UNCHANGED <<posts, trav>>
    /\ UNCHANGED authVars
    /\ UNCHANGED routeVars
    /\ UNCHANGED probe
    /\ UNCHANGED socialVars

\* POST /post/new reaching createPost: the handler passes the normalised bucket
CreatePost(shop, viewerId, rawBucket) ==
    /\ Len(posts) < MaxPosts
    /\ posts' = createPost(posts, dbNow, shop, viewerId, normalizeBucket(rawBucket))
    /\ trav' = IF trav.phase = "idle" THEN trav ELSE [trav EXCEPT !.fresh = FALSE]
    /\ UNCHANGED dbNow
    /\ UNCHANGED authVars
    /\ UNCHANGED routeVars
    /\ UNCHANGED probe
    /\ UNCHANGED socialVars

\* the first page of a bucket (GET / and its siblings): no cursor
FetchFirst(shop, tab, limit) ==
    /\ \E r \in {listBucketPostsWithMeta(posts, shop, normalizeBucket(tab), limit,
                                         NullCursor)} :
          trav' = [phase |-> IF r.nextCursor = "" THEN "done" ELSE "paging",
                   shop |-> shop, bucket |-> normalizeBucket(tab), limit |-> limit,
                   cursor |-> r.nextCursor, seen |-> r.posts, fresh |-> TRUE,
                   issuedN |-> Len(posts),
                   page |-> r.posts, pageCursor |-> "", pageIssuedN |-> 0,
                   pageBefore |-> <<>>]
    /\ UNCHANGED <<posts, dbNow>>
    /\ UNCHANGED authVars
    /\ UNCHANGED routeVars
    /\ UNCHANGED probe
    /\ UNCHANGED socialVars

\* GET /feed/more, GET /bucket/more: the next page, from the cursor the
\* previous page gave
FetchMore ==
    /\ trav.phase = "paging"
    /\ \E r \in {listBucketPostsWithMeta(posts, trav.shop, trav.bucket, trav.limit,
                                         decodeCursor(trav.cursor))} :
          trav' = [trav EXCEPT !.phase = IF r.nextCursor = "" THEN "done" ELSE "paging",
                               !.cursor = r.nextCursor,
                               !.seen = trav.seen \o r.posts,
                               !.issuedN = Len(posts),
                               !.page = r.posts,
                               !.pageCursor = trav.cursor,
                               !.pageIssuedN = trav.issuedN,
                               !.pageBefore = trav.seen]
    /\ UNCHANGED <<posts, dbNow>>
    /\ UNCHANGED authVars
    /\ UNCHANGED routeVars
    /\ UNCHANGED probe
    /\ UNCHANGED socialVars

FeedNext ==
    \/ DbTick
    \/ \E shop \in Shops, viewerId \in Posters, rawBucket \in RawBuckets :
          CreatePost(shop, viewerId, rawBucket)
    \/ \E shop \in Shops, tab \in RawBuckets, limit \in 1..MaxLimit :
          FetchFirst(shop, tab, limit)
    \/ FetchMore

SpecFeed == FeedInit /\ [][FeedNext]_vars

(***************************************************************************)
(* Route handlers behind the proxy: how each request ends                  *)
(***************************************************************************)
\* res.status(status)...send(body)
Answer(route, status, body) ==
    [route |-> route, answered |-> TRUE, status |-> status, location |-> "",
     body |-> body]

\* res.redirect(location): Express answers 302
Redirect(route, location) ==
    [route |-> route, answered |-> TRUE, status |-> 302, location |-> location,
     body |-> ""]

\* A rejected promise leaves an async handler: server.js installs no error
\* middleware and wraps no handler. What the client gets depends on the
\* Express release the deployment installs: no answer at all (4.x), or the
\* default error handler's 500 (5.x).
Thrown(route) ==
    {[route |-> route, answered |-> FALSE, status |-> 0, location |-> "", body |-> ""],
     Answer(route, 500, "Internal Server Error")}

\* Number(req.params.x) on the path segments the model sends
NumberOf(param) ==
    CASE param = "0" -> [finite |-> TRUE, n |-> 0]
      [] param = "1" -> [finite |-> TRUE, n |-> 1]
      [] param = "2" -> [finite |-> TRUE, n |-> 2]
      [] OTHER -> [finite |-> FALSE, n |-> 0]

IdParams == {"1", "2", "abc"}
IdxParams == {"0", "1", "x"}

allowedMediaMime(m) ==
    m \in {"image/png", "image/jpeg", "image/webp", "image/gif",
           "video/mp4", "video/webm", "video/quicktime"}

\* what a form can upload: the mime types of its files, in order
Uploads == {<<>>, <<"image/png">>, <<"image/png", "video/mp4">>, <<"text/html">>,
            <<"image/png", "text/html">>}

\* getPostMediaRow(postId, idx) when its queries succeed: TRUE when it returns
\* a row. No statement of server.js fills posts_v1.media_bytes, so the legacy
\* lookup for idx 0 finds nothing.
getPostMediaRow(postId, idx) ==
    /\ pool
    /\ idx >= 0
    /\ \E m \in post_media : m.post_id = postId /\ m.idx = idx

\* addPostMedia(postId, mediaItems): one row per item, idx from 0
addPostMedia(rows, postId, mediaItems) ==
    rows \cup {[post_id |-> postId, idx |-> i - 1, media_mime |-> mediaItems[i]] :
                  i \in 1..Len(mediaItems)}

\* a request as the storefront proxies it: signed or not, logged in or not
RouteReq(c, mode) ==
    [query |-> SignedQuery(MkQuery(c, <<"s1">>, <<"/apps/gn">>), mode),
     cookie |-> NoCookie]

\* GET /posts/:id/media/:idx
MediaHandler(req, idParam, idxParam) ==
    LET route == "GET /posts/:id/media/:idx"
        customerId == getViewerCustomerId(req)
        id == NumberOf(idParam)
        idx == NumberOf(idxParam)
    IN IF customerId = "" THEN {Answer(route, 200, "Not logged in")}
       ELSE IF ~pool THEN {Answer(route, 200, "DB not configured")}
       ELSE IF ~id.finite \/ ~idx.finite THEN {Answer(route, 404, "Not found")}
       ELSE IF ~dbUp THEN {Answer(route, 200, "Media error")}
       ELSE IF ~getPostMediaRow(id.n, idx.n) THEN {Answer(route, 404, "Not found")}
       ELSE {Answer(route, 200, "media")}

\* GET / (the feed page): ensureRow and the listing are awaited outside any try
FeedPageHandler(req, tab) ==
    LET route == "GET /"
        viewerId == getViewerCustomerId(req)
    IN IF viewerId = "" THEN {Answer(route, 200, "Please log in.")}
       ELSE IF ~pool THEN {Answer(route, 200, "DATABASE_URL not set")}
       ELSE IF ~dbUp THEN Thrown(route)
       ELSE {Answer(route, 200, "feed:" \o normalizeBucket(tab))}

\* POST /post/new checking the types after its writes: the post and the files
\* before the first one of a type not allowed are stored, then the redirect
PostNewHandler_lateTypeCheck(req, rawBucket, hasText, files) ==
    LET route == "POST /post/new"
        shop == getShop(req)
        viewerId == getViewerCustomerId(req)
        base == basePathFromReq(req)
        bucket == normalizeBucket(rawBucket)
        bad == {i \in 1..Len(files) : ~allowedMediaMime(files[i])}
        firstBad == CHOOSE i \in bad : \A j \in bad : i <= j
        same(o) == {[out |-> o, posts |-> posts, post_media |-> post_media,
                     dbUp |-> dbUp]}
    IN IF viewerId = "" THEN same(Answer(route, 200, "Not logged in"))
       ELSE IF ~pool THEN same(Answer(route, 200, "DB not configured"))
       ELSE IF ~dbUp THEN same(Redirect(route, base \o "/post/new?err=1"))
       ELSE IF bad # {}
       THEN {[out |-> Redirect(route, base \o "/post/new?type=1"),
              posts |-> createPost(posts, dbNow, shop, viewerId, bucket),
              post_media |-> addPostMedia(post_media, Len(posts) + 1,
                                          SubSeq(files, 1, firstBad - 1)),
              dbUp |-> dbUp]}
       ELSE {[out |-> Redirect(route, base),
              posts |-> createPost(posts, dbNow, shop, viewerId, bucket),
              post_media |-> addPostMedia(post_media, Len(posts) + 1, files),
              dbUp |-> dbUp]}

\* POST /post/new with a form that carries no return field: the answers it can
\* give, each with the tables after it. createPost and every INSERT of
\* addPostMedia are statements of their own, outside any transaction: the
\* database can stop answering after any of them (dbUp FALSE afterwards), and
\* what was written before stays.
PostNewHandler(req, rawBucket, hasText, files) ==
    LET route == "POST /post/new"
        shop == getShop(req)
        viewerId == getViewerCustomerId(req)
        base == basePathFromReq(req)
        bucket == normalizeBucket(rawBucket)
        requireMedia == bucket # "feed"
        hasMedia == Len(files) > 0
        same(o) == {[out |-> o, posts |-> posts, post_media |-> post_media,
                     dbUp |-> dbUp]}
    IN IF viewerId = "" THEN same(Answer(route, 200, "Not logged in"))
       ELSE IF ~pool THEN same(Answer(route, 200, "DB not configured"))
       ELSE IF \E i \in 1..Len(files) : ~allowedMediaMime(files[i])
            THEN same(Redirect(route, base \o "/post/new?type=1"))
       ELSE IF requireMedia /\ ~hasMedia
            THEN same(Redirect(route, base \o "?media=1"))
       ELSE IF ~requireMedia /\ ~hasText /\ ~hasMedia
            THEN same(Redirect(route, base \o "/post/new?err=1"))
       ELSE IF ~dbUp
            THEN same(Redirect(route, base \o "/post/new?err=1"))
       ELSE {[out |-> Redirect(route, base),
              posts |-> createPost(posts, dbNow, shop, viewerId, bucket),
              post_media |-> addPostMedia(post_media, Len(posts) + 1, files),
              dbUp |-> TRUE]}
            \cup
            {[out |-> Redirect(route, base \o "/post/new?err=1"),
              posts |-> createPost(posts, dbNow, shop, viewerId, bucket),
              post_media |-> addPostMedia(post_media, Len(posts) + 1,
                                          SubSeq(files, 1, written)),
              dbUp |-> FALSE] : written \in 0..(Len(files) - 1)}

RoutesInit ==
    /\ SHOPIFY_API_SECRET \in {"", PlatformSecret}
    /\ now = 1
    /\ jar = NoJar
    /\ mintedAt = 0
    /\ resp = Idle
    /\ posts = <<>>
    /\ dbNow = 0
    /\ trav = NoTraversal
    /\ pool \in BOOLEAN
    /\ dbUp = TRUE
    /\ post_media = {}
    /\ out = NoOut
    /\ probe = NoProbe
    /\ likes = {}
    /\ toggles = NoToggles
    /\ calls = NoCalls
    /\ comments = <<>>
    /\ profiles = {}
    /\ follows = {}
    /\ messages = <<>>

\* the database stops answering queries
DbOutage ==
    /\ pool /\ dbUp
    /\ dbUp' = FALSE
    /\ UNCHANGED <<pool, post_media, out>>
    /\ UNCHANGED authVars
    /\ UNCHANGED feedVars
    /\ UNCHANGED probe
    /\ UNCHANGED socialVars

\* the database answers again
DbRecover ==
    /\ pool /\ ~dbUp
    /\ dbUp' = TRUE
    /\ UNCHANGED <<pool, post_media, out>>
    /\ UNCHANGED authVars
    /\ UNCHANGED feedVars
    /\ UNCHANGED probe
    /\ UNCHANGED socialVars

\* a request for one media item, through requireProxyAuth and into the handler
MediaRoute(c, mode, idParam, idxParam) ==
    /\ \E req \in {RouteReq(c, mode)} :
       \E r \in {requireProxyAuth(req)} :
          out' \in IF r.next THEN MediaHandler(req, idParam, idxParam)
                   ELSE {Answer("GET /posts/:id/media/:idx", r.status, r.body)}
    /\ UNCHANGED <<pool, dbUp, post_media>>
    /\ UNCHANGED authVars
    /\ UNCHANGED feedVars
    /\ UNCHANGED probe
    /\ UNCHANGED socialVars

\* a request for the feed page
FeedPageRoute(c, mode, tab) ==
    /\ \E req \in {RouteReq(c, mode)} :
       \E r \in {requireProxyAuth(req)} :
          out' \in IF r.next THEN FeedPageHandler(req, tab)
                   ELSE {Answer("GET /", r.status, r.body)}
    /\ UNCHANGED <<pool, dbUp, post_media>>
    /\ UNCHANGED authVars
    /\ UNCHANGED feedVars
    /\ UNCHANGED probe
    /\ UNCHANGED socialVars

\* the form holds a file of a type that is not allowed
HasDisallowed(files) == \E i \in 1..Len(files) : ~allowedMediaMime(files[i])

\* the answer to a new-post form with what the request was: whether a file of
\* a type not allowed came with it, and the customer the handler ran for ("":
\* none, or the request never reached the handler)
PostNewOut(o, req, next, files) ==
    [route |-> o.route, answered |-> o.answered, status |-> o.status,
     location |-> o.location, body |-> o.body,
     disallowed |-> HasDisallowed(files),
     viewer |-> IF next THEN getViewerCustomerId(req) ELSE ""]

\* a new-post form
PostNewRoute(c, mode, rawBucket, hasText, files) ==
    /\ Len(posts) < MaxPosts
    /\ \E req \in {RouteReq(c, mode)} :
       \E r \in {requireProxyAuth(req)} :
       \E h \in PostNewHandler(req, rawBucket, hasText, files) :
          /\ out' = PostNewOut(IF r.next THEN h.out
                                ELSE Answer("POST /post/new", r.status, r.body),
                                req, r.next, files)
          /\ posts' = IF r.next THEN h.posts ELSE posts
          /\ post_media' = IF r.next THEN h.post_media ELSE post_media
          /\ dbUp' = IF r.next THEN h.dbUp ELSE dbUp
    /\ UNCHANGED <<pool, dbNow, trav>>
    /\ UNCHANGED authVars
    /\ UNCHANGED probe
    /\ UNCHANGED socialVars

RoutesNext ==
    \/ DbOutage
    \/ DbRecover
    \/ \E c \in {<<>>, <<"c1">>}, mode \in {"none", "platform"},
          idParam \in IdParams, idxParam \in IdxParams :
          MediaRoute(c, mode, idParam, idxParam)
    \/ \E c \in {<<>>, <<"c1">>}, mode \in {"none", "platform"}, tab \in RawBuckets :
          FeedPageRoute(c, mode, tab)
    \/ \E c \in {<<>>, <<"c1">>}, mode \in {"none", "platform"},
          rawBucket \in RawBuckets, hasText \in BOOLEAN, files \in Uploads :
          PostNewRoute(c, mode, rawBucket, hasText, files)

SpecRoutes == RoutesInit /\ [][RoutesNext]_vars

(***************************************************************************)
(* Likes: POST /posts/:id/like over the likes_v1 table                     *)
(***************************************************************************)
\* history bound: toggles carried out per post and customer
MaxToggles == 3

\* INSERT INTO likes_v1 violates PRIMARY KEY (post_id, customer_id)
LikeConflict(rows, postId, customerId) ==
    \E r \in rows : r.post_id = postId /\ r.customer_id = customerId

\* toggleLike whose catch block deletes nothing
toggleLike_keepRow(rows, shop, postId, customerId) ==
    IF ~dbUp THEN [threw |-> TRUE, likes |-> rows, liked |-> FALSE]
    ELSE IF LikeConflict(rows, postId, customerId)
    THEN [threw |-> FALSE, likes |-> rows, liked |-> FALSE]
    ELSE [threw |-> FALSE,
          likes |-> rows \cup {[shop |-> shop, post_id |-> postId,
                                customer_id |-> customerId]},
          liked |-> TRUE]

\* toggleLike, called with a pool: the INSERT, and in its catch block the
\* DELETE. With the database not answering both statements fail and the
\* DELETE's error leaves the function.
toggleLike(rows, shop, postId, customerId) ==
    IF ~dbUp THEN [threw |-> TRUE, likes |-> rows, liked |-> FALSE]
    ELSE IF LikeConflict(rows, postId, customerId)
    THEN [threw |-> FALSE,
          likes |-> {r \in rows : ~(r.post_id = postId /\ r.customer_id = customerId)},
          liked |-> FALSE]
    ELSE [threw |-> FALSE,
          likes |-> rows \cup {[shop |-> shop, post_id |-> postId,
                                customer_id |-> customerId]},
          liked |-> TRUE]

\* a like request from customer c of shop s
LikeReq(c, s, mode) ==
    [query |-> SignedQuery(MkQuery(c, s, <<"/apps/gn">>), mode),
     cookie |-> NoCookie]

\* POST /posts/:id/like with no return field and no referer: the answer, the
\* table after it, and whether toggleLike returned
LikeHandler(req, idParam) ==
    LET route == "POST /posts/:id/like"
        shop == getShop(req)
        viewerId == getViewerCustomerId(req)
        base == basePathFromReq(req)
        id == NumberOf(idParam)
        same(o) == [out |-> o, likes |-> likes, toggled |-> FALSE,
                    post_id |-> 0, customer_id |-> viewerId]
    IN IF viewerId = "" THEN same(Answer(route, 200, "Not logged in"))
       ELSE IF ~pool THEN same(Answer(route, 200, "DB not configured"))
       ELSE IF ~id.finite THEN same(Redirect(route, base))
       ELSE LET t == toggleLike(likes, shop, id.n, viewerId)
            IN [out |-> Redirect(route, base \o "#post-" \o idParam),
                likes |-> t.likes, toggled |-> ~t.threw,
                post_id |-> id.n, customer_id |-> viewerId]

LikesInit ==
    /\ SHOPIFY_API_SECRET = PlatformSecret
    /\ now = 1
    /\ jar = NoJar
    /\ mintedAt = 0
    /\ resp = Idle
    /\ posts = <<>>
    /\ dbNow = 0
    /\ trav = NoTraversal
    /\ pool \in BOOLEAN
    /\ dbUp = TRUE
    /\ post_media = {}
    /\ out = NoOut
    /\ probe = NoProbe
    /\ likes = {}
    /\ toggles = NoToggles
    /\ calls = NoCalls
    /\ comments = <<>>
    /\ profiles = {}
    /\ follows = {}
    /\ messages = <<>>

\* a like request, through requireProxyAuth and into the handler
LikeRoute(c, s, mode, idParam) ==
    /\ \E req \in {LikeReq(c, s, mode)} :
       \E r \in {requireProxyAuth(req)} :
       \E h \in {LikeHandler(req, idParam)} :
          /\ r.next /\ h.toggled => toggles[h.post_id][h.customer_id] < MaxToggles
          /\ out' = IF r.next THEN h.out
                    ELSE Answer("POST /posts/:id/like", r.status, r.body)
          /\ likes' = IF r.next THEN h.likes ELSE likes
          /\ toggles' = IF r.next /\ h.toggled
                        THEN [toggles EXCEPT ![h.post_id][h.customer_id] = @ + 1]
                        ELSE toggles
    /\ UNCHANGED <<pool, dbUp, post_media, calls, comments, profiles, follows, messages>>
    /\ UNCHANGED authVars
    /\ UNCHANGED feedVars
    /\ UNCHANGED probe

LikesNext ==
    \/ DbOutage
    \/ DbRecover
    \/ \E c \in {<<>>, <<"c1">>, <<"c2">>}, s \in {<<"s1">>, <<"s2">>},
          mode \in {"none", "platform"}, idParam \in IdParams :
          LikeRoute(c, s, mode, idParam)

SpecLikes == LikesInit /\ [][LikesNext]_vars

(***************************************************************************)
(* Paging requests: GET /bucket/more (and GET /feed/more, the same code    *)
(* with another limit) over a table that grows, with database outages      *)
(***************************************************************************)
\* the page size the handler passes as limit (24 in GET /bucket/more, 15 in
\* GET /feed/more), scaled to the model
MoreLimit == 2

\* the ids of a page, as the html field carries them
RECURSIVE RenderCards(_)
RenderCards(page) ==
    IF page = <<>> THEN ""
    ELSE "#" \o ToString(Head(page)) \o RenderCards(Tail(page))

\* res.status(200).json({ html, nextCursor })
MoreJson(html, nextCursor) == "{html:" \o html \o ",nextCursor:" \o nextCursor \o "}"

\* the cursor values a paging request carries: none, every cursor the server
\* can issue, and texts it never issued
CursorParams == {""} \cup DOMAIN CursorTable \cup DOMAIN ForeignCursors

\* GET /bucket/more with a string cursor parameter: decodeCursor, the reader,
\* the JSON answer. The reader's rejection leaves the handler: there is no try.
BucketMoreHandler(req, rawBucket, cursorParam) ==
    LET route == "GET /bucket/more"
        shop == getShop(req)
        viewerId == getViewerCustomerId(req)
        bucket == normalizeBucket(rawBucket)
        cursor == decodeCursor(cursorParam)
        r == listBucketPostsWithMeta(posts, shop, bucket, MoreLimit, cursor)
    IN IF viewerId = "" THEN {Answer(route, 200, MoreJson("", ""))}
       ELSE IF ~pool THEN {Answer(route, 200, MoreJson("", ""))}
       ELSE IF r.threw THEN Thrown(route)
       ELSE {Answer(route, 200, MoreJson(RenderCards(r.posts), r.nextCursor))}

\* the answer with the request it answers: its bucket and cursor parameters,
\* whether the customer was logged in, the state of the database (dbUp: it
\* answered every query of the request; failing: the lookup it did not
\* answer), the answers the same request without a cursor can get, and those
\* it gets when every query is answered
MoreOut(o, req, rawBucket, cursorParam) ==
    [route |-> o.route, answered |-> o.answered, status |-> o.status,
     location |-> o.location, body |-> o.body,
     viewer |-> getViewerCustomerId(req), bucket |-> rawBucket,
     cursor |-> cursorParam, pool |-> pool, dbUp |-> dbUp, failing |-> "none",
     first |-> BucketMoreHandler(req, rawBucket, ""),
     intact |-> BucketMoreHandler(req, rawBucket, cursorParam)]

\* the lookups that enrich a page, in the order the reader awaits them
EnrichmentLookups ==
    <<"like_count", "viewer_liked", "comment_count", "comments_preview", "media">>

\* getPostsMeta(postIds, viewerCustomerId) when the database stops answering
\* at the lookup failing: no query is made for an empty page or without a
\* pool; each query is awaited with no catch, so its rejection leaves the
\* function
getPostsMeta(postIds, viewerCustomerId, failing) ==
    [threw |-> /\ pool /\ postIds # <<>>
               /\ \/ failing \in {"like_count", "comment_count", "comments_preview"}
                  \/ failing = "viewer_liked" /\ viewerCustomerId # ""]

\* getPostMediaMeta(postIds), the same way
getPostMediaMeta(postIds, failing) ==
    [threw |-> pool /\ postIds # <<>> /\ failing = "media"]

\* listBucketPostsWithMeta when the page query is answered and the lookup
\* failing is not: the two enrichment calls are awaited outside any try
listBucketPostsWithMetaFailing(rows, shop, viewerCustomerId, bucket, limit, cursor, failing) ==
    LET r == listBucketPostsWithMeta(rows, shop, bucket, limit, cursor) IN
    IF r.threw THEN r
    ELSE IF getPostsMeta(r.posts, viewerCustomerId, failing).threw
            \/ getPostMediaMeta(r.posts, failing).threw
    THEN [posts |-> <<>>, nextCursor |-> "", threw |-> TRUE]
    ELSE r

\* GET /bucket/more while the database stops answering at one lookup
BucketMoreHandlerFailing(req, rawBucket, cursorParam, failing) ==
    LET route == "GET /bucket/more"
        shop == getShop(req)
        viewerId == getViewerCustomerId(req)
        bucket == normalizeBucket(rawBucket)
        cursor == decodeCursor(cursorParam)
        r == listBucketPostsWithMetaFailing(posts, shop, viewerId, bucket, MoreLimit,
                                            cursor, failing)
    IN IF viewerId = "" THEN {Answer(route, 200, MoreJson("", ""))}
       ELSE IF ~pool THEN {Answer(route, 200, MoreJson("", ""))}
       ELSE IF r.threw THEN Thrown(route)
       ELSE {Answer(route, 200, MoreJson(RenderCards(r.posts), r.nextCursor))}

PagingInit ==
    /\ SHOPIFY_API_SECRET = PlatformSecret
    /\ now = 1
    /\ jar = NoJar
    /\ mintedAt = 0
    /\ resp = Idle
    /\ posts = <<>>
    /\ dbNow = 0
    /\ trav = NoTraversal
    /\ pool \in BOOLEAN
    /\ dbUp = TRUE
    /\ post_media = {}
    /\ out = NoOut
    /\ probe = NoProbe
    /\ likes = {}
    /\ toggles = NoToggles
    /\ calls = NoCalls
    /\ comments = <<>>
    /\ profiles = {}
    /\ follows = {}
    /\ messages = <<>>

\* a paging request, through requireProxyAuth and into the handler. A paging
\* request writes nothing, so one request after every history of the table is
\* every request.
BucketMoreRoute(c, mode, rawBucket, cursorParam) ==
    /\ out = NoOut
    /\ \E req \in {RouteReq(c, mode)} :
       \E r \in {requireProxyAuth(req)} :
       \E o \in IF r.next THEN BucketMoreHandler(req, rawBucket, cursorParam)
                ELSE {Answer("GET /bucket/more", r.status, r.body)} :
          out' = MoreOut(o, req, rawBucket, cursorParam)
    /\ UNCHANGED <<pool, dbUp, post_media>>
    /\ UNCHANGED authVars
    /\ UNCHANGED feedVars
    /\ UNCHANGED probe
    /\ UNCHANGED socialVars

\* a paging request during which the database stops answering: the page
\* query is answered, the lookup failing is not
BucketMoreLookupFails(c, mode, rawBucket, cursorParam, failing) ==
    /\ out = NoOut
    /\ pool /\ dbUp
    /\ \E req \in {RouteReq(c, mode)} :
       \E r \in {requireProxyAuth(req)} :
          /\ r.next
          /\ \E o \in BucketMoreHandlerFailing(req, rawBucket, cursorParam, failing) :
                out' = [MoreOut(o, req, rawBucket, cursorParam)
                           EXCEPT !.dbUp = FALSE, !.failing = failing]
    /\ dbUp' = FALSE
    /\ UNCHANGED <<pool, post_media>>
    /\ UNCHANGED authVars
    /\ UNCHANGED feedVars
    /\ UNCHANGED probe
    /\ UNCHANGED socialVars

PagingNext ==
    \/ DbTick
    \/ DbOutage
    \/ DbRecover
    \/ \E rawBucket \in {"feed", "collections"} :
          pool /\ dbUp /\ out = NoOut /\ CreatePost("s1", "c1", rawBucket)
    \/ \E c \in {<<>>, <<"c1">>}, rawBucket \in {"feed", "collections"},
          cursorParam \in CursorParams :
          BucketMoreRoute(c, "platform", rawBucket, cursorParam)
    \/ \E rawBucket \in {"feed", "collections"}, cursorParam \in CursorParams,
          k \in 1..Len(EnrichmentLookups) :
          BucketMoreLookupFails(<<"c1">>, "platform", rawBucket, cursorParam,
                                EnrichmentLookups[k])

SpecPaging == PagingInit /\ [][PagingNext]_vars

(***************************************************************************)
(* Post listings across shops: the bucket timeline and the profile pages   *)
(***************************************************************************)
\* listPostsForCustomerWithMeta({targetCustomerId, viewerCustomerId, limit}):
\* the feed posts of one customer, newest first. Its WHERE clause names the
\* customer and the bucket only.
listPostsForCustomerWithMeta(rows, targetCustomerId, limit) ==
    IF ~pool THEN [posts |-> <<>>, nextCursor |-> "", threw |-> FALSE]
    ELSE IF ~dbUp THEN [posts |-> <<>>, nextCursor |-> "", threw |-> TRUE] ELSE
    LET S == {i \in 1..Len(rows) :
                 /\ rows[i].customer_id = targetCustomerId
                 /\ rows[i].bucket = "feed"}
        page == OrderDescLimit(rows, S, limit)
    IN [posts |-> page,
        nextCursor |-> IF Len(page) = limit
                       THEN encodeCursor(rows[page[Len(page)]].created_at,
                                         rows[page[Len(page)]].id)
                       ELSE "",
        threw |-> FALSE]

\* a request proxied from the storefront of one shop
ShopReq(c, shop) ==
    [query |-> SignedQuery(MkQuery(c, <<shop>>, <<"/apps/gn">>), "platform"),
     cookie |-> NoCookie]

\* an answer and the posts the page lists
Listing(o, listed) == [o |-> o, listed |-> listed]

\* the answers of a rejected promise, listing nothing
ThrownListing(route) == {Listing(o, <<>>) : o \in Thrown(route)}

\* GET /me: the viewer's own feed posts
MeHandler(req) ==
    LET route == "GET /me"
        viewerId == getViewerCustomerId(req)
        r == listPostsForCustomerWithMeta(posts, viewerId, 20)
    IN IF viewerId = "" THEN {Listing(Answer(route, 200, "You are not logged in."), <<>>)}
       ELSE IF ~pool THEN {Listing(Answer(route, 200, "DATABASE_URL not set"), <<>>)}
       ELSE IF r.threw THEN ThrownListing(route)
       ELSE {Listing(Answer(route, 200, "me:" \o RenderCards(r.posts)), r.posts)}

\* GET /u/:customerId: another customer's feed posts. hasProfile is what
\* getProfile(targetId) finds.
UserHandler(req, targetParam, hasProfile) ==
    LET route == "GET /u/:customerId"
        viewerId == getViewerCustomerId(req)
        base == basePathFromReq(req)
        targetId == targetParam
        r == listPostsForCustomerWithMeta(posts, targetId, 20)
    IN IF targetId = "" THEN {Listing(Answer(route, 200, "Missing user."), <<>>)}
       ELSE IF viewerId # "" /\ targetId = viewerId
       THEN {Listing(Redirect(route, base \o "/me"), <<>>)}
       ELSE IF viewerId = "" THEN {Listing(Answer(route, 200, "You are not logged in."), <<>>)}
       ELSE IF ~pool THEN {Listing(Answer(route, 200, "DATABASE_URL not set"), <<>>)}
       ELSE IF ~dbUp THEN ThrownListing(route)
       ELSE IF ~hasProfile THEN {Listing(Answer(route, 200, "User not found."), <<>>)}
       ELSE {Listing(Answer(route, 200, "u:" \o RenderCards(r.posts)), r.posts)}

\* GET /bucket/more without a cursor: the first page of a bucket timeline
BucketListHandler(req, rawBucket) ==
    LET route == "GET /bucket/more"
        shop == getShop(req)
        viewerId == getViewerCustomerId(req)
        r == listBucketPostsWithMeta(posts, shop, normalizeBucket(rawBucket),
                                     MoreLimit, NullCursor)
    IN IF viewerId = "" THEN {Listing(Answer(route, 200, MoreJson("", "")), <<>>)}
       ELSE IF ~pool THEN {Listing(Answer(route, 200, MoreJson("", "")), <<>>)}
       ELSE IF r.threw THEN ThrownListing(route)
       ELSE {Listing(Answer(route, 200, MoreJson(RenderCards(r.posts), r.nextCursor)),
                     r.posts)}

\* the answer with the request it answers: the viewer, the viewer's
\* effective shop, the reader used and the posts listed
ListingOut(l, req, reader) ==
    [route |-> l.o.route, answered |-> l.o.answered, status |-> l.o.status,
     location |-> l.o.location, body |-> l.o.body,
     viewer |-> getViewerCustomerId(req), shop |-> getShop(req),
     reader |-> reader, listed |-> l.listed]

\* getProfile(customerId) finds a row: ensureRow(viewerId, shop) runs before
\* every createPost (POST /post/new), so a customer with a post has one
ProfileOutcomes(customerId) ==
    IF \E i \in 1..Len(posts) : posts[i].customer_id = customerId
    THEN {TRUE} ELSE BOOLEAN

ListingInit ==
    /\ SHOPIFY_API_SECRET = PlatformSecret
    /\ now = 1
    /\ jar = NoJar
    /\ mintedAt = 0
    /\ resp = Idle
    /\ posts = <<>>
    /\ dbNow = 0
    /\ trav = NoTraversal
    /\ pool = TRUE
    /\ dbUp = TRUE
    /\ post_media = {}
    /\ out = NoOut
    /\ probe = NoProbe
    /\ likes = {}
    /\ toggles = NoToggles
    /\ calls = NoCalls
    /\ comments = <<>>
    /\ profiles = {}
    /\ follows = {}
    /\ messages = <<>>

\* a listing request through requireProxyAuth and into its handler. A listing
\* writes nothing, so one request after every history of the table is every
\* request.
MeRoute(c, shop) ==
    /\ out = NoOut
    /\ \E req \in {ShopReq(c, shop)} :
       \E r \in {requireProxyAuth(req)} :
       \E l \in IF r.next THEN MeHandler(req)
                ELSE {Listing(Answer("GET /me", r.status, r.body), <<>>)} :
          out' = ListingOut(l, req, "customer")
    /\ UNCHANGED <<pool, dbUp, post_media>>
    /\ UNCHANGED authVars
    /\ UNCHANGED feedVars
    /\ UNCHANGED probe
    /\ UNCHANGED socialVars

UserRoute(c, shop, targetParam) ==
    /\ out = NoOut
    /\ \E req \in {ShopReq(c, shop)} :
       \E r \in {requireProxyAuth(req)} :
       \E hasProfile \in ProfileOutcomes(targetParam) :
       \E l \in IF r.next THEN UserHandler(req, targetParam, hasProfile)
                ELSE {Listing(Answer("GET /u/:customerId", r.status, r.body), <<>>)} :
          out' = ListingOut(l, req, "customer")
    /\ UNCHANGED <<pool, dbUp, post_media>>
    /\ UNCHANGED authVars
    /\ UNCHANGED feedVars
    /\ UNCHANGED probe
    /\ UNCHANGED socialVars

BucketListRoute(c, shop, rawBucket) ==
    /\ out = NoOut
    /\ \E req \in {ShopReq(c, shop)} :
       \E r \in {requireProxyAuth(req)} :
       \E l \in IF r.next THEN BucketListHandler(req, rawBucket)
                ELSE {Listing(Answer("GET /bucket/more", r.status, r.body), <<>>)} :
          out' = ListingOut(l, req, "bucket")
    /\ UNCHANGED <<pool, dbUp, post_media>>
    /\ UNCHANGED authVars
    /\ UNCHANGED feedVars
    /\ UNCHANGED probe
    /\ UNCHANGED socialVars

ListingNext ==
    \/ DbTick
    \/ \E shop \in Shops, c \in Customers, rawBucket \in {"feed", "collection"} :
          out = NoOut /\ CreatePost(shop, c, rawBucket)
    \/ \E c \in {<<>>, <<"c1">>, <<"c2">>}, shop \in Shops : MeRoute(c, shop)
    \/ \E c \in {<<>>, <<"c1">>, <<"c2">>}, shop \in Shops,
          targetParam \in Customers : UserRoute(c, shop, targetParam)
    \/ \E c \in {<<>>, <<"c1">>, <<"c2">>}, shop \in Shops,
          rawBucket \in {"feed", "collection"} : BucketListRoute(c, shop, rawBucket)

SpecListing == ListingInit /\ [][ListingNext]_vars

(***************************************************************************)
(* The write endpoints over the tables they fill: posts, likes, comments,  *)
(* profiles, follows and messages                                          *)
(***************************************************************************)
\* history bounds: rows written through the endpoints below
MaxSocialPosts == 1
MaxComments == 1
MaxMessages == 1

\* the comment field of the form after cleanMultiline
CommentBodies == {"", "hi"}

\* addComment({shop, postId, customerId, body}): one INSERT, the id drawn
\* from the BIGSERIAL
addComment(rows, shop, postId, customerId, body) ==
    Append(rows, [id |-> Len(rows) + 1, shop |-> shop, post_id |-> postId,
                  customer_id |-> customerId, body |-> body])

\* POST /posts/:id/comment without the check for a logged-in customer
CommentHandler_noLoginCheck(req, idParam, body) ==
    LET route == "POST /posts/:id/comment"
        shop == getShop(req)
        viewerId == getViewerCustomerId(req)
        base == basePathFromReq(req)
        id == NumberOf(idParam)
        same(o) == [out |-> o, comments |-> comments]
    IN IF ~pool THEN same(Answer(route, 200, "DB not configured"))
       ELSE IF ~id.finite THEN same(Redirect(route, base))
       ELSE IF body = "" THEN same(Redirect(route, base \o "#post-" \o idParam))
       ELSE IF ~dbUp THEN same(Redirect(route, base \o "#post-" \o idParam))
       ELSE [out |-> Redirect(route, base \o "#post-" \o idParam),
             comments |-> addComment(comments, shop, id.n, viewerId, body)]

\* POST /posts/:id/comment with no return field and no referer: the answer
\* and the table after it
CommentHandler(req, idParam, body) ==
    LET route == "POST /posts/:id/comment"
        shop == getShop(req)
        viewerId == getViewerCustomerId(req)
        base == basePathFromReq(req)
        id == NumberOf(idParam)
        same(o) == [out |-> o, comments |-> comments]
    IN IF viewerId = "" THEN same(Answer(route, 200, "Not logged in"))
       ELSE IF ~pool THEN same(Answer(route, 200, "DB not configured"))
       ELSE IF ~id.finite THEN same(Redirect(route, base))
       ELSE IF body = "" THEN same(Redirect(route, base \o "#post-" \o idParam))
       ELSE IF ~dbUp THEN same(Redirect(route, base \o "#post-" \o idParam))
       ELSE [out |-> Redirect(route, base \o "#post-" \o idParam),
             comments |-> addComment(comments, shop, id.n, viewerId, body)]

\* ensureRow(customerId, shop): INSERT ... ON CONFLICT (customer_id) DO UPDATE
\* SET shop
ensureRow(rows, customerId, shop) ==
    IF \E r \in rows : r.customer_id = customerId
    THEN {IF r.customer_id = customerId THEN [r EXCEPT !.shop = shop] ELSE r :
             r \in rows}
    ELSE rows \cup {[customer_id |-> customerId, shop |-> shop,
                     first_name |-> "", avatar_mime |-> ""]}

\* updateProfile(customerId, patch) for a patch of one column
updateProfile(rows, customerId, column, value) ==
    {IF r.customer_id = customerId THEN [r EXCEPT ![column] = value] ELSE r :
        r \in rows}

\* POST /me/edit: every outcome, with the table after it. ensureRow and
\* updateProfile are two statements: the database can stop answering
\* between them.
EditHandler(req, first_name) ==
    LET route == "POST /me/edit"
        shop == getShop(req)
        viewerId == getViewerCustomerId(req)
        base == basePathFromReq(req)
        same(o) == {[out |-> o, profiles |-> profiles, dbUp |-> dbUp]}
        ensured == ensureRow(profiles, viewerId, shop)
    IN IF viewerId = "" THEN same(Answer(route, 200, "Not logged in"))
       ELSE IF ~pool THEN same(Answer(route, 200, "DB not configured"))
       ELSE IF ~dbUp THEN same(Redirect(route, base \o "/me/edit"))
       ELSE {[out |-> Redirect(route, base \o "/me/edit"),
              profiles |-> updateProfile(ensured, viewerId, "first_name", first_name),
              dbUp |-> TRUE],
             [out |-> Redirect(route, base \o "/me/edit"),
              profiles |-> ensured, dbUp |-> FALSE]}

\* the file of an avatar form: none, or its mime type
AvatarFiles == {<<>>, <<"image/png">>, <<"image/gif">>}

\* POST /me/avatar
AvatarHandler(req, file) ==
    LET route == "POST /me/avatar"
        shop == getShop(req)
        viewerId == getViewerCustomerId(req)
        base == basePathFromReq(req)
        same(o) == {[out |-> o, profiles |-> profiles, dbUp |-> dbUp]}
        ensured == ensureRow(profiles, viewerId, shop)
    IN IF viewerId = "" THEN same(Answer(route, 200, "Not logged in"))
       ELSE IF ~pool THEN same(Answer(route, 200, "DB not configured"))
       ELSE IF file = <<>> THEN same(Redirect(route, base \o "/me/edit"))
       ELSE IF file[1] \notin {"image/png", "image/jpeg", "image/webp"}
       THEN same(Redirect(route, base \o "/me/edit"))
       ELSE IF ~dbUp THEN same(Redirect(route, base \o "/me/edit"))
       ELSE {[out |-> Redirect(route, base \o "/me/edit"),
              profiles |-> updateProfile(ensured, viewerId, "avatar_mime", file[1]),
              dbUp |-> TRUE],
             [out |-> Redirect(route, base \o "/me/edit"),
              profiles |-> ensured, dbUp |-> FALSE]}

\* toggleFollow({followerId, followedId}): the INSERT, and in its catch block
\* the DELETE (PRIMARY KEY (follower_id, followed_id))
toggleFollow(rows, followerId, followedId) ==
    LET row == [follower_id |-> followerId, followed_id |-> followedId]
    IN IF row \in rows THEN rows \ {row} ELSE rows \cup {row}

\* POST /u/:customerId/follow
FollowHandler(req, targetParam) ==
    LET route == "POST /u/:customerId/follow"
        viewerId == getViewerCustomerId(req)
        base == basePathFromReq(req)
        targetId == targetParam
        same(o) == [out |-> o, follows |-> follows]
    IN IF viewerId = "" THEN same(Answer(route, 200, "Not logged in"))
       ELSE IF ~pool THEN same(Answer(route, 200, "DB not configured"))
       ELSE IF targetId = "" THEN same(Redirect(route, base))
       ELSE IF targetId = viewerId THEN same(Redirect(route, base \o "/me"))
       ELSE IF ~dbUp THEN same(Redirect(route, base \o "/u/" \o targetId))
       ELSE [out |-> Redirect(route, base \o "/u/" \o targetId),
             follows |-> toggleFollow(follows, viewerId, targetId)]

\* allowedMessageMime(m), on mime types in lower case
allowedMessageMime(m) ==
    m \in {"image/png", "image/jpeg", "image/webp", "image/gif",
           "video/mp4", "video/webm", "video/quicktime", "application/pdf"}

\* the file of a message form: none, or its mime type
MessageFiles == {<<>>, <<"application/pdf">>, <<"text/html">>}

\* createMessage({shop, senderId, receiverId, body}): one INSERT; the media
\* column stands for the rows of message_media_v1 addMessageMedia adds
createMessage(rows, shop, senderId, receiverId, body, media) ==
    Append(rows, [id |-> Len(rows) + 1, shop |-> shop, sender_id |-> senderId,
                  receiver_id |-> receiverId, body |-> body, media |-> media])

\* POST /dm/:customerId: every outcome, with the tables after it. The two
\* ensureRow calls, createMessage and addMessageMedia are statements of their
\* own: the database can stop answering after any of them.
DmHandler(req, targetParam, body, file) ==
    LET route == "POST /dm/:customerId"
        shop == getShop(req)
        viewerId == getViewerCustomerId(req)
        base == basePathFromReq(req)
        targetId == targetParam
        hasText == body # ""
        hasMedia == file # <<>>
        same(o) == {[out |-> o, profiles |-> profiles, messages |-> messages,
                     dbUp |-> dbUp]}
        back == Redirect(route, base \o "/dm/" \o targetId)
        own == ensureRow(profiles, viewerId, shop)
        both == ensureRow(own, targetId, shop)
    IN IF viewerId = "" THEN same(Answer(route, 200, "Not logged in"))
       ELSE IF ~pool THEN same(Answer(route, 200, "DB not configured"))
       ELSE IF targetId = "" \/ targetId = viewerId
       THEN same(Redirect(route, base \o "/me"))
       ELSE IF hasMedia /\ ~allowedMessageMime(file[1]) THEN same(back)
       ELSE IF ~hasText /\ ~hasMedia THEN same(back)
       ELSE IF ~dbUp THEN same(back)
       ELSE {[out |-> Redirect(route, base \o "/dm/" \o targetId \o "?sent=1"),
              profiles |-> both,
              messages |-> createMessage(messages, shop, viewerId, targetId, body, file),
              dbUp |-> TRUE],
             [out |-> back, profiles |-> own, messages |-> messages, dbUp |-> FALSE],
             [out |-> back, profiles |-> both, messages |-> messages, dbUp |-> FALSE]}
            \cup
            IF hasMedia
            THEN {[out |-> back, profiles |-> both,
                   messages |-> createMessage(messages, shop, viewerId, targetId,
                                              body, <<>>),
                   dbUp |-> FALSE]}
            ELSE {}

\* the answer to a write request with the customer the handler ran for
\* ("": none) and whether requireProxyAuth let the request through
WriteOut(o, req, next) ==
    [answered |-> o.answered, status |-> o.status,
     viewer |-> getViewerCustomerId(req), admitted |-> next]

SocialInit ==
    /\ SHOPIFY_API_SECRET = PlatformSecret
    /\ now = 1
    /\ jar = NoJar
    /\ mintedAt = 0
    /\ resp = Idle
    /\ posts = <<>>
    /\ dbNow = 0
    /\ trav = NoTraversal
    /\ pool = TRUE
    /\ dbUp = TRUE
    /\ post_media = {}
    /\ out = NoOut
    /\ probe = NoProbe
    /\ likes = {}
    /\ toggles = NoToggles
    /\ calls = NoCalls
    /\ comments = <<>>
    /\ profiles = {}
    /\ follows = {}
    /\ messages = <<>>

\* a new-post form from customer c of shop s. ensureRow runs before
\* createPost in the same try: the profile row is there whenever the post
\* is, and the database can stop answering between the two.
PostWrite(c, s, mode, hasText, files) ==
    /\ Len(posts) < MaxSocialPosts
    /\ \E req \in {LikeReq(c, s, mode)} :
       \E r \in {requireProxyAuth(req)} :
       \E h \in PostNewHandler(req, "feed", hasText, files) :
       \E afterEnsureRow \in BOOLEAN :
          /\ afterEnsureRow => r.next /\ h.posts # posts
          /\ out' = WriteOut(IF ~r.next
                              THEN Answer("POST /post/new", r.status, r.body)
                              ELSE IF afterEnsureRow
                              THEN Redirect("POST /post/new",
                                            basePathFromReq(req) \o "/post/new?err=1")
                              ELSE h.out,
                              req, r.next)
          /\ posts' = IF r.next /\ ~afterEnsureRow THEN h.posts ELSE posts
          /\ post_media' = IF r.next /\ ~afterEnsureRow THEN h.post_media
                           ELSE post_media
          /\ dbUp' = IF ~r.next THEN dbUp
                     ELSE IF afterEnsureRow THEN FALSE ELSE h.dbUp
          /\ profiles' = IF r.next /\ h.posts # posts
                         THEN ensureRow(profiles, getViewerCustomerId(req),
                                        getShop(req))
                         ELSE profiles
    /\ UNCHANGED <<pool, dbNow, trav>>
    /\ UNCHANGED authVars
    /\ UNCHANGED probe
    /\ UNCHANGED <<likes, toggles, calls, comments, follows, messages>>

\* a like request
LikeWrite(c, s, mode, idParam) ==
    /\ \E req \in {LikeReq(c, s, mode)} :
       \E r \in {requireProxyAuth(req)} :
       \E h \in {LikeHandler(req, idParam)} :
          /\ out' = WriteOut(IF r.next THEN h.out
                              ELSE Answer("POST /posts/:id/like", r.status, r.body),
                              req, r.next)
          /\ likes' = IF r.next THEN h.likes ELSE likes
    /\ UNCHANGED <<pool, dbUp, post_media>>
    /\ UNCHANGED <<toggles, calls, comments, profiles, follows, messages>>
    /\ UNCHANGED authVars
    /\ UNCHANGED feedVars
    /\ UNCHANGED probe

\* a comment form
CommentWrite(c, s, mode, idParam, body) ==
    /\ Len(comments) < MaxComments
    /\ \E req \in {LikeReq(c, s, mode)} :
       \E r \in {requireProxyAuth(req)} :
       \E h \in {CommentHandler(req, idParam, body)} :
          /\ out' = WriteOut(IF r.next THEN h.out
                              ELSE Answer("POST /posts/:id/comment", r.status, r.body),
                              req, r.next)
          /\ comments' = IF r.next THEN h.comments ELSE comments
    /\ UNCHANGED <<pool, dbUp, post_media>>
    /\ UNCHANGED <<likes, toggles, calls, profiles, follows, messages>>
    /\ UNCHANGED authVars
    /\ UNCHANGED feedVars
    /\ UNCHANGED probe

\* a profile form
EditWrite(c, s, mode, first_name) ==
    /\ \E req \in {LikeReq(c, s, mode)} :
       \E r \in {requireProxyAuth(req)} :
       \E h \in EditHandler(req, first_name) :
          /\ out' = WriteOut(IF r.next THEN h.out
                              ELSE Answer("POST /me/edit", r.status, r.body),
                              req, r.next)
          /\ profiles' = IF r.next THEN h.profiles ELSE profiles
          /\ dbUp' = IF r.next THEN h.dbUp ELSE dbUp
    /\ UNCHANGED <<pool, post_media>>
    /\ UNCHANGED <<likes, toggles, calls, comments, follows, messages>>
    /\ UNCHANGED authVars
    /\ UNCHANGED feedVars
    /\ UNCHANGED probe

\* an avatar form
AvatarWrite(c, s, mode, file) ==
    /\ \E req \in {LikeReq(c, s, mode)} :
       \E r \in {requireProxyAuth(req)} :
       \E h \in AvatarHandler(req, file) :
          /\ out' = WriteOut(IF r.next THEN h.out
                              ELSE Answer("POST /me/avatar", r.status, r.body),
                              req, r.next)
          /\ profiles' = IF r.next THEN h.profiles ELSE profiles
          /\ dbUp' = IF r.next THEN h.dbUp ELSE dbUp
    /\ UNCHANGED <<pool, post_media>>
    /\ UNCHANGED <<likes, toggles, calls, comments, follows, messages>>
    /\ UNCHANGED authVars
    /\ UNCHANGED feedVars
    /\ UNCHANGED probe

\* a follow request
FollowWrite(c, s, mode, targetParam) ==
    /\ \E req \in {LikeReq(c, s, mode)} :
       \E r \in {requireProxyAuth(req)} :
       \E h \in {FollowHandler(req, targetParam)} :
          /\ out' = WriteOut(IF r.next THEN h.out
                              ELSE Answer("POST /u/:customerId/follow", r.status,
                                          r.body),
                              req, r.next)
          /\ follows' = IF r.next THEN h.follows ELSE follows
    /\ UNCHANGED <<pool, dbUp, post_media>>
    /\ UNCHANGED <<likes, toggles, calls, comments, profiles, messages>>
    /\ UNCHANGED authVars
    /\ UNCHANGED feedVars
    /\ UNCHANGED probe

\* a message form
DmWrite(c, s, mode, targetParam, body, file) ==
    /\ Len(messages) < MaxMessages
    /\ \E req \in {LikeReq(c, s, mode)} :
       \E r \in {requireProxyAuth(req)} :
       \E h \in DmHandler(req, targetParam, body, file) :
          /\ out' = WriteOut(IF r.next THEN h.out
                              ELSE Answer("POST /dm/:customerId", r.status, r.body),
                              req, r.next)
          /\ profiles' = IF r.next THEN h.profiles ELSE profiles
          /\ messages' = IF r.next THEN h.messages ELSE messages
          /\ dbUp' = IF r.next THEN h.dbUp ELSE dbUp
    /\ UNCHANGED <<pool, post_media>>
    /\ UNCHANGED <<likes, toggles, calls, comments, follows>>
    /\ UNCHANGED authVars
    /\ UNCHANGED feedVars
    /\ UNCHANGED probe

\* the database answers again
SocialDbRecover ==
    /\ pool /\ ~dbUp
    /\ dbUp' = TRUE
    /\ UNCHANGED <<pool, post_media, out>>
    /\ UNCHANGED authVars
    /\ UNCHANGED feedVars
    /\ UNCHANGED probe
    /\ UNCHANGED socialVars

SocialNext ==
    \/ SocialDbRecover
    \/ \E c \in {<<>>, <<"c1">>}, mode \in {"none", "platform"},
          hasText \in BOOLEAN :
          PostWrite(c, <<"s1">>, mode, hasText, <<>>)
    \/ \E c \in {<<>>, <<"c1">>}, s \in {<<"s1">>, <<"s2">>},
          mode \in {"none", "platform"}, idParam \in {"1", "abc"} :
          LikeWrite(c, s, mode, idParam)
    \/ \E c \in {<<>>, <<"c1">>}, s \in {<<"s1">>, <<"s2">>},
          mode \in {"none", "platform"}, idParam \in {"1", "abc"},
          body \in CommentBodies :
          CommentWrite(c, s, mode, idParam, body)
    \/ \E c \in {<<>>, <<"c1">>}, mode \in {"none", "platform"},
          first_name \in {"", "Ann"} :
          EditWrite(c, <<"s1">>, mode, first_name)
    \/ \E c \in {<<>>, <<"c1">>}, mode \in {"none", "platform"},
          file \in AvatarFiles :
          AvatarWrite(c, <<"s1">>, mode, file)
    \/ \E c \in {<<>>, <<"c1">>}, mode \in {"none", "platform"},
          targetParam \in Customers :
          FollowWrite(c, <<"s1">>, mode, targetParam)
    \/ \E c \in {<<>>, <<"c1">>}, mode \in {"none", "platform"},
          targetParam \in Customers, body \in {"", "hi"}, file \in MessageFiles :
          DmWrite(c, <<"s1">>, mode, targetParam, body, file)

SpecSocial == SocialInit /\ [][SocialNext]_vars

(***************************************************************************)
(* Like toggles that overlap: toggleLike is two statements, each awaited,  *)
(* and another call can run between them                                   *)
(***************************************************************************)
\* a primary key over (shop, post_id, customer_id)
LikeConflict_perShop(rows, shop, postId, customerId) ==
    \E r \in rows : r.shop = shop /\ r.post_id = postId /\ r.customer_id = customerId

\* the INSERT of a row is refused: PRIMARY KEY (post_id, customer_id)
LikeInsertRefused(rows, shop, postId, customerId) ==
    LikeConflict(rows, postId, customerId)

\* the DELETE removing nothing
LikeDelete_none(rows, postId, customerId) == rows

\* DELETE FROM likes_v1 WHERE post_id=$1 AND customer_id=$2
LikeDelete(rows, postId, customerId) ==
    {r \in rows : ~(r.post_id = postId /\ r.customer_id = customerId)}

\* the call is between its start and its return
InFlight(call) == call.pc \in {"insert", "delete"}

SameKey(a, b) == a.post_id = b.post_id /\ a.customer_id = b.customer_id

ToggleInit ==
    /\ SHOPIFY_API_SECRET = PlatformSecret
    /\ now = 1
    /\ jar = NoJar
    /\ mintedAt = 0
    /\ resp = Idle
    /\ posts = <<>>
    /\ dbNow = 0
    /\ trav = NoTraversal
    /\ pool = TRUE
    /\ dbUp = TRUE
    /\ post_media = {}
    /\ out = NoOut
    /\ probe = NoProbe
    /\ likes = {}
    /\ toggles = NoToggles
    /\ calls = NoCalls
    /\ comments = <<>>
    /\ profiles = {}
    /\ follows = {}
    /\ messages = <<>>

\* the handler calls toggleLike({shop, postId, customerId}): the call takes
\* the first free slot. overlapped records that it began while another call
\* for the same post and customer had not returned.
CallStart(k, s, p, c) ==
    /\ calls[k].pc = "idle"
    /\ \A j \in 1..(k - 1) : calls[j].pc # "idle"
    /\ \E me \in {[pc |-> "insert", shop |-> s, post_id |-> p, customer_id |-> c,
                   liked |-> FALSE, overlapped |-> FALSE]} :
          calls' = [j \in 1..MaxCalls |->
                      IF j = k
                      THEN [me EXCEPT !.overlapped =
                              \E i \in 1..MaxCalls :
                                  i # k /\ InFlight(calls[i]) /\ SameKey(calls[i], me)]
                      ELSE IF InFlight(calls[j]) /\ SameKey(calls[j], me)
                      THEN [calls[j] EXCEPT !.overlapped = TRUE]
                      ELSE calls[j]]
    /\ UNCHANGED <<likes, toggles, comments, profiles, follows, messages>>
    /\ UNCHANGED authVars
    /\ UNCHANGED feedVars
    /\ UNCHANGED routeVars
    /\ UNCHANGED probe

\* the INSERT of the call is answered: the row is written and the call
\* returns liked, or the key is taken and the call enters its catch block
CallInsert(k) ==
    /\ calls[k].pc = "insert"
    /\ \E call \in {calls[k]} :
          IF LikeInsertRefused(likes, call.shop, call.post_id, call.customer_id)
          THEN /\ calls' = [calls EXCEPT ![k].pc = "delete"]
               /\ UNCHANGED likes
          ELSE /\ calls' = [calls EXCEPT ![k].pc = "done", ![k].liked = TRUE]
               /\ likes' = likes \cup {[shop |-> call.shop, post_id |-> call.post_id,
                                        customer_id |-> call.customer_id]}
    /\ UNCHANGED <<toggles, comments, profiles, follows, messages>>
    /\ UNCHANGED authVars
    /\ UNCHANGED feedVars
    /\ UNCHANGED routeVars
    /\ UNCHANGED probe

\* the DELETE of the catch block is answered and the call returns not liked
CallDelete(k) ==
    /\ calls[k].pc = "delete"
    /\ likes' = LikeDelete(likes, calls[k].post_id, calls[k].customer_id)
    /\ calls' = [calls EXCEPT ![k].pc = "done", ![k].liked = FALSE]
    /\ UNCHANGED <<toggles, comments, profiles, follows, messages>>
    /\ UNCHANGED authVars
    /\ UNCHANGED feedVars
    /\ UNCHANGED routeVars
    /\ UNCHANGED probe

ToggleNext ==
    \/ \E k \in 1..MaxCalls, s \in Shops, p \in LikePosts, c \in Customers :
          CallStart(k, s, p, c)
    \/ \E k \in 1..MaxCalls : CallInsert(k)
    \/ \E k \in 1..MaxCalls : CallDelete(k)

SpecToggle == ToggleInit /\ [][ToggleNext]_vars

(***************************************************************************)
(* The verifier and the token codec called on their own: each step calls   *)
(* one function on one input and records what it returned                  *)
(***************************************************************************)
\* what the request's signature parameter looks like
SigShapes == {"absent", "empty", "array", "own", "other"}

\* the query with a signature parameter of the given shape; the platform
\* signs with PlatformSecret whatever the server is configured with
WithSigShape(q, shape) ==
    IF shape = "empty" THEN WithSignature(q, "")
    ELSE IF shape = "array"
    THEN [k \in DOMAIN q \cup {"signature"} |->
             IF k = "signature"
             THEN <<HmacHex(PlatformSecret, buildProxyMessage(q)),
                    HmacHex(PlatformSecret, buildProxyMessage(q))>>
             ELSE q[k]]
    ELSE IF shape = "own" THEN SignedQuery(q, "platform")
    ELSE IF shape = "other" THEN SignedQuery(q, "stale")
    ELSE q

\* a token a server configured with PlatformSecret minted, far from expiry
PlatformToken ==
    LET data == b64urlEncode(JsonStringify(ForgedPayload))
    IN <<data, HmacHex(PlatformSecret, data)>>

CodecInit ==
    /\ SHOPIFY_API_SECRET \in {"", PlatformSecret}
    /\ now \in 1..MaxNow
    /\ jar = NoJar
    /\ mintedAt = 0
    /\ resp = Idle
    /\ posts = <<>>
    /\ dbNow = 0
    /\ trav = NoTraversal
    /\ pool = TRUE
    /\ dbUp = TRUE
    /\ post_media = {}
    /\ out = NoOut
    /\ probe = NoProbe
    /\ likes = {}
    /\ toggles = NoToggles
    /\ calls = NoCalls
    /\ comments = <<>>
    /\ profiles = {}
    /\ follows = {}
    /\ messages = <<>>

\* verifyShopifyProxy(req), verifySession(cookie) and requireProxyAuth(req) on
\* one request
ProbeRequest(c, s, p, shape, withCookie) ==
    /\ probe = NoProbe
    /\ \E req \in {[query |-> WithSigShape(MkQuery(c, s, p), shape),
                     cookie |-> IF withCookie THEN PlatformToken ELSE NoCookie]} :
          probe' = [op |-> "request", query |-> req.query, shape |-> shape,
                    cookie |-> req.cookie,
                    run |-> verifyShopifyProxyRun(req),
                    session |-> verifySession(req.cookie),
                    next |-> requireProxyAuth(req).next]
    /\ UNCHANGED <<SHOPIFY_API_SECRET, now, jar, mintedAt, resp>>
    /\ UNCHANGED feedVars
    /\ UNCHANGED routeVars
    /\ UNCHANGED socialVars

\* verifySession(signSession(payloadObj))
ProbeRoundTrip(payloadObj) ==
    /\ probe = NoProbe
    /\ probe' = [op |-> "roundtrip", payload |-> payloadObj,
                 token |-> signSession(payloadObj),
                 result |-> verifySession(signSession(payloadObj))]
    /\ UNCHANGED <<SHOPIFY_API_SECRET, now, jar, mintedAt, resp>>
    /\ UNCHANGED feedVars
    /\ UNCHANGED routeVars
    /\ UNCHANGED socialVars

\* the tokens verifySession is called on, by what is wrong with them
TokenKinds ==
    {"good", "one_segment", "three_segments", "mac_flipped", "not_json",
     "not_object", "no_customer_id", "no_shop", "no_path_prefix", "no_exp"}

GoodPayload ==
    [customer_id |-> "c1", shop |-> "s1", path_prefix |-> "/apps/gn",
     exp |-> MaxNow + SESSION_TTL]

\* the digest HmacHex(key, msg) with its first character replaced
FlipOneChar(key, msg) == "Hmac<" \o key \o ">" \o msg

\* data with the MAC this server computes for it
Signed(data) == <<data, HmacHex(SHOPIFY_API_SECRET, data)>>

TokenOfKind(kind) ==
    LET good == signSession(GoodPayload) IN
    CASE kind = "good" -> good
      [] kind = "one_segment" -> <<good[1]>>
      [] kind = "three_segments" -> <<good[1], good[2], "x">>
      [] kind = "mac_flipped" -> <<good[1], FlipOneChar(SHOPIFY_API_SECRET, good[1])>>
      [] kind = "not_json" -> Signed(b64urlEncode("{customer_id"))
      [] kind = "not_object" -> Signed(b64urlEncode("42"))
      [] kind = "no_customer_id" ->
            Signed(b64urlEncode(JsonStringify(Without(GoodPayload, "customer_id"))))
      [] kind = "no_shop" ->
            Signed(b64urlEncode(JsonStringify(Without(GoodPayload, "shop"))))
      [] kind = "no_path_prefix" ->
            Signed(b64urlEncode(JsonStringify(Without(GoodPayload, "path_prefix"))))
      [] kind = "no_exp" ->
            Signed(b64urlEncode(JsonStringify(Without(GoodPayload, "exp"))))

\* verifySession(token) on a token of the given kind
ProbeVerifySession(kind) ==
    /\ probe = NoProbe
    /\ probe' = [op |-> "verifySession", kind |-> kind, token |-> TokenOfKind(kind),
                 run |-> verifySessionRunAt(TokenOfKind(kind), now)]
    /\ UNCHANGED <<SHOPIFY_API_SECRET, now, jar, mintedAt, resp>>
    /\ UNCHANGED feedVars
    /\ UNCHANGED routeVars
    /\ UNCHANGED socialVars

\* the longest query string of a canonical-message probe, in parameters
MaxParams == 3

ParamNames == {"path_prefix", "shop", "timestamp"}
ParamValues == {"a", "b"}

\* query strings: name=value pairs in the order they arrive
RawQueries == UNION {[1..n -> ParamNames \X ParamValues] : n \in 1..MaxParams}

\* the query parser: the object's members in insertion order, each a name
\* with the list of its values; a repeated name extends its member's list
RECURSIVE ParseQuery(_, _)
ParseQuery(pairs, entries) ==
    IF pairs = <<>> THEN entries
    ELSE LET k == pairs[1][1]
             v == pairs[1][2]
         IN ParseQuery(Tail(pairs),
               IF \E i \in 1..Len(entries) : entries[i][1] = k
               THEN [i \in 1..Len(entries) |->
                       IF entries[i][1] = k
                       THEN <<k, Append(entries[i][2], v)>> ELSE entries[i]]
               ELSE Append(entries, <<k, <<v>>>>))

\* Object.keys(query)
ObjectKeys(entries) == [i \in 1..Len(entries) |-> entries[i][1]]

\* the place of a name in ascending order
Rank(k) == CHOOSE i \in 1..Len(SortedKeys) : SortedKeys[i] = k

RECURSIVE Insert(_, _)
Insert(sorted, k) ==
    IF sorted = <<>> THEN <<k>>
    ELSE IF Rank(k) < Rank(sorted[1]) THEN <<k>> \o sorted
    ELSE <<sorted[1]>> \o Insert(Tail(sorted), k)

\* keys left in arrival order
SortAscending_asArrived(keys) == keys

RECURSIVE SortAscending(_)
\* Array.prototype.sort() on the keys
SortAscending(keys) ==
    IF keys = <<>> THEN <<>>
    ELSE Insert(SortAscending(Tail(keys)), keys[1])

ValueOf(entries, k) ==
    entries[CHOOSE i \in 1..Len(entries) : entries[i][1] = k][2]

RECURSIVE JoinMembers(_, _)
JoinMembers(entries, keys) ==
    IF keys = <<>> THEN ""
    ELSE keys[1] \o "=" \o JoinComma(ValueOf(entries, keys[1]))
         \o JoinMembers(entries, Tail(keys))

\* buildProxyMessage on the object as the parser built it
buildProxyMessageOf(entries) ==
    JoinMembers(entries, SortAscending(ObjectKeys(entries)))

\* the same object as a function from names to value lists
ObjectOf(entries) ==
    [k \in {entries[i][1] : i \in 1..Len(entries)} |-> ValueOf(entries, k)]

Perms(n) == {f \in [1..n -> 1..n] : \A i, j \in 1..n : f[i] = f[j] => i = j}

\* buildProxyMessage on a query string and on the same parameters arriving
\* in another order, and verifyShopifyProxy on the query signed over its own
\* canonical message
ProbeCanonical(pairs, perm) ==
    /\ probe = NoProbe
    /\ \E entries \in {ParseQuery(pairs, <<>>)} :
       \E other \in {ParseQuery([i \in 1..Len(pairs) |-> pairs[perm[i]]], <<>>)} :
          probe' = [op |-> "canonical", pairs |-> pairs, perm |-> perm,
                    entries |-> entries,
                    message |-> buildProxyMessageOf(entries),
                    otherMessage |-> buildProxyMessageOf(other),
                    selfSigned |->
                        verifyShopifyProxy(
                           [query |-> WithSignature(ObjectOf(entries),
                                         HmacHex(SHOPIFY_API_SECRET,
                                                 buildProxyMessageOf(entries))),
                            cookie |-> NoCookie])]
    /\ UNCHANGED <<SHOPIFY_API_SECRET, now, jar, mintedAt, resp>>
    /\ UNCHANGED feedVars
    /\ UNCHANGED routeVars
    /\ UNCHANGED socialVars

\* the values of a parameter in the parameter sets compared below: one string,
\* or the array of a repeated parameter. A value is any text the sender likes,
\* "=" and "," included.
SetValues == {<<"a">>, <<"b">>, <<"a", "b">>, <<"a,b">>, <<"ashop=b">>}

\* the parameter sets compared: every non-empty query over two names
ParamSets ==
    UNION {[names -> SetValues] : names \in (SUBSET {"path_prefix", "shop"}) \ {{}}}

\* buildProxyMessage on two parameter sets, and verifyShopifyProxy on the
\* second carrying the signature the platform computed for the first
ProbeInjective(q1, q2) ==
    /\ probe = NoProbe
    /\ probe' = [op |-> "injective", q1 |-> q1, q2 |-> q2,
                 m1 |-> buildProxyMessage(q1),
                 m2 |-> buildProxyMessage(q2),
                 crossVerifies |->
                     verifyShopifyProxy(
                        [query |-> WithSignature(q2, HmacHex(PlatformSecret,
                                                             buildProxyMessage(q1))),
                         cookie |-> NoCookie])]
    /\ UNCHANGED <<SHOPIFY_API_SECRET, now, jar, mintedAt, resp>>
    /\ UNCHANGED feedVars
    /\ UNCHANGED routeVars
    /\ UNCHANGED socialVars

CodecNext ==
    \/ \E q1 \in ParamSets, q2 \in ParamSets : ProbeInjective(q1, q2)
    \/ \E pairs \in RawQueries : \E perm \in Perms(Len(pairs)) :
          ProbeCanonical(pairs, perm)
    \/ \E kind \in TokenKinds : ProbeVerifySession(kind)
    \/ \E payloadObj \in PayloadUniverse : ProbeRoundTrip(payloadObj)
    \/ \E c \in CustomerParams, s \in ShopParams, p \in PrefixParams,
          shape \in SigShapes, withCookie \in BOOLEAN :
          ProbeRequest(c, s, p, shape, withCookie)

SpecCodec == CodecInit /\ [][CodecNext]_vars

(***************************************************************************)
(* Properties of the Session Bridge (checked under SpecAuth)               *)
(***************************************************************************)
\* the request's signature parameter is the HMAC of its own canonical message
\* under the secret the server is configured with
SigVerifies(r) ==
    /\ r.kind = "request"
    /\ r.sigMode = "platform"
    /\ SHOPIFY_API_SECRET = PlatformSecret

\* the request presents a token this server minted, and the clock has not
\* passed the token's exp
CookieLive(r) ==
    /\ r.kind = "request"
    /\ SHOPIFY_API_SECRET # ""
    /\ r.cookieKind = "jar"
    /\ r.held.valid
    /\ r.at <= r.held.exp

\* the request carries parameter k as a single non-empty string
CarriesNonEmpty(q, k) == k \in DOMAIN q /\ Len(q[k]) = 1 /\ q[k][1] # ""

CookieFallback(r) == r.kind = "request" /\ ~SigVerifies(r) /\ CookieLive(r)

\* C1: in the Cookie-Fallback state the handler's effective customer id, shop
\* and path prefix are exactly the values embedded in the token, whatever
\* unsigned query parameters the request carries.
C1_FallbackUsesTokenIdentity ==
    CookieFallback(resp) =>
        /\ resp.next
        /\ resp.viewer = resp.held.customer_id
        /\ resp.shop = resp.held.shop
        /\ resp.base = resp.held.path_prefix

C3_MintIffAllThreeCarried ==
    SigVerifies(resp) =>
        /\ resp.next
        /\ (resp.setCookie # NoCookie <=>
              /\ CarriesNonEmpty(resp.query, "logged_in_customer_id")
              /\ CarriesNonEmpty(resp.query, "shop")
              /\ CarriesNonEmpty(resp.query, "path_prefix"))

\* C3, amended: a verified request mints a cookie iff it carries a non-empty
\* customer identity and a non-empty shop and its path_prefix is not the empty
\* string; a request with no path_prefix string mints with the default base
\* path as the token's path_prefix. The request proceeds in either case.
C3_MintIffIdentityAndShop ==
    SigVerifies(resp) =>
        /\ resp.next
        /\ (resp.setCookie # NoCookie <=>
              /\ CarriesNonEmpty(resp.query, "logged_in_customer_id")
              /\ CarriesNonEmpty(resp.query, "shop")
              /\ \/ CarriesNonEmpty(resp.query, "path_prefix")
                 \/ "path_prefix" \notin DOMAIN resp.query
                 \/ Len(resp.query["path_prefix"]) # 1)
        /\ (resp.setCookie # NoCookie /\ ~CarriesNonEmpty(resp.query, "path_prefix")
              => jar.obj.path_prefix = DEFAULT_BASE)

C3_Witness ==
    /\ SigVerifies(resp)
    /\ resp.setCookie # NoCookie
    /\ "path_prefix" \notin DOMAIN resp.query

\* C4: a signed request with logged_in_customer_id = "" verifies, mints no
\* cookie and is handled as unauthenticated (the effective viewer is empty),
\* whatever session cookie it also carries.
C4_SignedLoggedOutIsUnauthenticated ==
    (/\ SigVerifies(resp)
     /\ "logged_in_customer_id" \in DOMAIN resp.query
     /\ resp.query["logged_in_customer_id"] = <<"">>) =>
        /\ resp.next
        /\ resp.setCookie = NoCookie
        /\ resp.viewer = ""

C6_NoPassiveRenewal ==
    /\ jar # NoJar => jar.obj.exp = mintedAt + SESSION_TTL
    /\ (resp.kind = "request" /\ resp.setCookie # NoCookie) =>
          /\ SigVerifies(resp)
          /\ mintedAt = resp.at
          /\ jar.token = resp.setCookie
    /\ (resp.kind = "request" /\ ~SigVerifies(resp) /\ resp.next) =>
          /\ mintedAt # 0
          /\ resp.at <= mintedAt + SESSION_TTL
    /\ (resp.kind = "request" /\ ~SigVerifies(resp) /\ mintedAt # 0
          /\ resp.at > mintedAt + SESSION_TTL) => ~resp.next

C6_Witness ==
    /\ resp.kind = "request"
    /\ ~SigVerifies(resp)
    /\ resp.cookieKind = "jar"
    /\ resp.at > mintedAt + SESSION_TTL
    /\ ~resp.next

\* the request was admitted on its cookie: its signature did not verify
AdmittedOnCookie(r) == r.kind = "request" /\ ~SigVerifies(r) /\ r.next

\* C19: on the Cookie-Fallback path the Session Bridge is read-only. A request
\* admitted because its session cookie is valid, its signature not verified,
\* emits no Set-Cookie, and the token the client holds and its exp are what
\* they were before the request.
C19_FallbackIsReadOnly ==
    [][(resp' # resp /\ AdmittedOnCookie(resp'))
       => /\ resp'.setCookie = NoCookie
          /\ jar' = jar
          /\ mintedAt' = mintedAt]_vars

\* a request admitted on a live cookie, some time after the mint
C19_Witness ==
    /\ AdmittedOnCookie(resp)
    /\ CookieLive(resp)
    /\ resp.at > mintedAt
    /\ resp.setCookie = NoCookie
    /\ jar.obj.exp = mintedAt + SESSION_TTL

\* the token the request's values can fall back on: the one this server
\* minted, presented while the clock has not passed its exp; else nothing
ValidatedToken(r) == IF CookieLive(r) THEN r.held ELSE NullSession

\* the query parameter k when the request carries it as a non-empty string
QueryString(r, k) == IF CarriesNonEmpty(r.query, k) THEN r.query[k][1] ELSE ""

\* C23: effective-value precedence. The effective customer id and shop are
\* the request's query parameter when it is a non-empty string, otherwise the
\* value in the validated session token, otherwise empty; the effective base
\* path is the query path_prefix when it is non-empty and starts with '/',
\* otherwise the validated token's path_prefix when it starts with '/',
\* otherwise the hardcoded default.
C23_EffectiveValuePrecedence ==
    (resp.kind = "request" /\ resp.next) =>
        LET t == ValidatedToken(resp)
            c == QueryString(resp, "logged_in_customer_id")
            s == QueryString(resp, "shop")
            p == QueryString(resp, "path_prefix")
        IN /\ resp.viewer = IF c # "" THEN c ELSE t.customer_id
           /\ resp.shop = IF s # "" THEN s ELSE t.shop
           /\ resp.base = IF p # "" /\ StartsWithSlash(p) THEN p
                          ELSE IF StartsWithSlash(t.path_prefix) THEN t.path_prefix
                          ELSE DEFAULT_BASE

\* a signed request with a shop, no customer id and a path_prefix without a
\* slash, presenting a live cookie: one value from the query, two from the
\* token
C23_Witness ==
    /\ resp.kind = "request" /\ resp.next
    /\ CookieLive(resp)
    /\ ~CarriesNonEmpty(resp.query, "logged_in_customer_id")
    /\ CarriesNonEmpty(resp.query, "shop")
    /\ resp.shop # resp.held.shop
    /\ resp.viewer = resp.held.customer_id
    /\ CarriesNonEmpty(resp.query, "path_prefix")
    /\ resp.base = resp.held.path_prefix
    /\ resp.base # resp.query["path_prefix"][1]

(***************************************************************************)
(* Properties of the timeline reader (checked under SpecFeed)              *)
(***************************************************************************)
\* the ids of a page, as a set
Ids(page) == {page[k] : k \in 1..Len(page)}

\* the posts of the walk's shop and bucket
InTimeline(i) == posts[i].shop = trav.shop /\ posts[i].bucket = trav.bucket

\* C7: with no write during the walk, following nextCursor until it is empty
\* visits every post of the bucket exactly once, in strictly decreasing
\* (created_at, id) order, and the walk ends with an empty nextCursor.
C7_PagingVisitsEveryPostOnce ==
    (trav.phase = "done" /\ trav.fresh) =>
        LET M == {i \in 1..Len(posts) : InTimeline(i)} IN
        /\ trav.cursor = ""
        /\ Len(trav.seen) = Cardinality(M)
        /\ Ids(trav.seen) = M
        /\ \A k \in 1..(Len(trav.seen) - 1) :
              KeyBelow(posts[trav.seen[k + 1]].created_at, trav.seen[k + 1],
                       posts[trav.seen[k]].created_at, trav.seen[k])

\* the position a cursor text stands for
CursorAt(cursor) == FromIso(decodeCursor(cursor).createdAt)
CursorId(cursor) == decodeCursor(cursor).id

C9_BucketIsolation ==
    \A k \in 1..Len(trav.page) : posts[trav.page[k]].asked = trav.bucket

\* a page was returned while the shop holds a post of another bucket
C9_Witness ==
    /\ trav.page # <<>>
    /\ \E i \in 1..Len(posts) :
          posts[i].shop = trav.shop /\ posts[i].asked # trav.bucket

\* the posts of the walk's shop and bucket
Matching == {i \in 1..Len(posts) : InTimeline(i)}

\* C20, the reader's rule: the page just returned carries a non-empty
\* nextCursor exactly when it holds exactly limit rows, the cursor being
\* encodeCursor of the last row's (created_at, id), and an empty one when it
\* holds fewer.
C20_CursorIffFullPage ==
    trav.phase # "idle" =>
        /\ (trav.cursor # "") <=> (Len(trav.page) = trav.limit)
        /\ trav.cursor # "" =>
              trav.cursor = encodeCursor(posts[trav.page[Len(trav.page)]].created_at,
                                         trav.page[Len(trav.page)])

\* C20: the reader's rule and its consequence. When the number of matching
\* posts is an exact positive multiple of limit, a walk with no write during
\* it ends like this: the last full page, which completes the delivery of the
\* matching posts, carries a non-empty cursor, and the single fetch that
\* follows with it returns zero rows and an empty cursor.
C20_ExactMultipleEndsWithEmptyFetch ==
    /\ C20_CursorIffFullPage
    /\ (/\ trav.phase = "done" /\ trav.fresh
        /\ Matching # {}
        /\ Cardinality(Matching) % trav.limit = 0)
       => /\ trav.page = <<>>
          /\ trav.cursor = ""
          /\ trav.pageCursor # ""
          /\ Len(trav.pageBefore) = Cardinality(Matching)
          /\ Ids(trav.pageBefore) = Matching

\* the three buckets
Buckets == {"feed", "collection", "trades"}

\* C26: in every reachable state the bucket of every stored post is one of
\* feed, collection, trades. normalizeBucket maps any input to one of the
\* three (unrecognized, empty or missing input to feed), is idempotent, and is
\* applied both when a post is created and when a timeline is read.
C26_BucketsAreNormalized ==
    /\ \A i \in 1..Len(posts) : posts[i].bucket \in Buckets
    /\ \A raw \in RawBuckets :
          /\ normalizeBucket(raw) \in Buckets
          /\ normalizeBucket(normalizeBucket(raw)) = normalizeBucket(raw)
          /\ raw \in {"", "junk"} => normalizeBucket(raw) = "feed"
    /\ trav.phase # "idle" =>
          /\ trav.bucket \in Buckets
          /\ \A k \in 1..Len(trav.page) : posts[trav.page[k]].bucket = trav.bucket

\* posts of all three buckets are stored and a page of trades has been read
C26_Witness ==
    /\ {posts[i].bucket : i \in 1..Len(posts)} = Buckets
    /\ trav.phase # "idle"
    /\ trav.bucket = "trades"
    /\ trav.page # <<>>

(***************************************************************************)
(* Properties of the route handlers (checked under SpecRoutes)             *)
(***************************************************************************)
\* C10: every request to a proxy route, whatever fails on its way (missing
\* secret, invalid signature, unauthenticated viewer, database unconfigured,
\* query failure, unparseable id, resource not found), is answered, and with
\* status 200, or with a redirect when it is a form post: never with another
\* status, never left unanswered.
C10_FailuresAnswer200OrRedirect ==
    out.route # "none" =>
        /\ out.answered
        /\ \/ out.status = 200
           \/ out.status = 302 /\ out.route = "POST /post/new"

\* the last answer is that of a new-post form with a file of a type that is
\* not allowed
DisallowedAnswered(o) == o.route = "POST /post/new" /\ o.disallowed

\* C25: a create-post request in which any uploaded file has a disallowed
\* media type is rejected before any write: no post row and no media row is
\* created, whatever allowed files precede the disallowed one, and the
\* response is a redirect carrying the type flag. The redirect is that of a
\* request that reaches the handler's checks of the form: admitted, from a
\* logged-in customer, with the database configured.
C25_DisallowedTypeWritesNothing ==
    [][DisallowedAnswered(out')
       => /\ UNCHANGED <<posts, post_media>>
          /\ (out'.viewer # "" /\ pool)
             => /\ out'.status = 302
                /\ out'.location = "/apps/gn/post/new?type=1"]_vars

\* the redirect with the type flag has been given while posts and media of
\* earlier requests are stored
C25_Witness ==
    /\ DisallowedAnswered(out)
    /\ out.viewer # ""
    /\ out.status = 302
    /\ out.location = "/apps/gn/post/new?type=1"
    /\ Len(posts) = 1
    /\ Cardinality(post_media) = 2

(***************************************************************************)
(* Properties of the verifier and the token codec (checked under SpecCodec)*)
(***************************************************************************)
\* C11: verifyShopifyProxy returns false for every request when no secret is
\* configured, and for every request whose signature parameter is absent,
\* empty or not a single string, in each case before any HMAC is computed;
\* with no secret configured no request is let through and verifySession
\* rejects every token.
C11_VerificationFailsClosed ==
    probe.op = "request" =>
        /\ SHOPIFY_API_SECRET = "" =>
              /\ ~probe.run.ok /\ ~probe.run.hmac
              /\ ~probe.session.valid
              /\ ~probe.next
        /\ probe.shape \in {"absent", "empty", "array"} =>
              ~probe.run.ok /\ ~probe.run.hmac

\* with no secret configured, a request the platform signed that also carries
\* a token minted under the platform's secret is turned away
C11_Witness ==
    /\ probe.op = "request"
    /\ SHOPIFY_API_SECRET = ""
    /\ probe.shape = "own"
    /\ probe.cookie # NoCookie
    /\ ~probe.run.ok /\ ~probe.next

C13_MalformedTokensAreInvalid ==
    probe.op = "verifySession" =>
        /\ probe.kind # "good" => ~probe.run.session.valid
        /\ probe.run.decoded =>
              /\ Len(probe.token) = 2
              /\ probe.token[2] = HmacHex(SHOPIFY_API_SECRET, probe.token[1])

\* the rearrangement keeps the occurrences of each name in their order
KeepsRepeatsInOrder(pairs, perm) ==
    \A i, j \in 1..Len(pairs) :
        (i < j /\ pairs[perm[i]][1] = pairs[perm[j]][1]) => perm[i] < perm[j]

\* the message is sorted keys, key=value, values comma-joined, nothing between
\* members; and with a secret configured the query signed over it verifies
CanonicalAndSelfVerifying ==
    /\ probe.message = buildProxyMessage(ObjectOf(probe.entries))
    /\ SHOPIFY_API_SECRET # "" => probe.selfSigned

\* C14 as stated: the canonical message of a parameter set is the same in
\* whatever order the parameters arrive, and a request signed over its own
\* canonical message under the configured secret verifies.
C14_CanonicalIgnoresArrivalOrder ==
    probe.op = "canonical" =>
        /\ probe.message = probe.otherMessage
        /\ CanonicalAndSelfVerifying

\* C14 as the code has it: the same, for every arrival order that keeps the
\* occurrences of a repeated parameter in their order (its values are joined
\* in arrival order).
C14_CanonicalIgnoresOrderOfNames ==
    probe.op = "canonical" =>
        /\ KeepsRepeatsInOrder(probe.pairs, probe.perm) =>
              probe.message = probe.otherMessage
        /\ CanonicalAndSelfVerifying

\* three parameters arriving in descending order of name, one of them
\* repeated, rearranged, gave the same message, and the signed query verified
C14_Witness ==
    /\ probe.op = "canonical"
    /\ SHOPIFY_API_SECRET # ""
    /\ probe.pairs = <<<<"timestamp", "a">>, <<"shop", "b">>, <<"shop", "a">>>>
    /\ probe.perm = <<2, 3, 1>>
    /\ probe.message = "shop=b,atimestamp=a"
    /\ probe.message = probe.otherMessage
    /\ probe.selfSigned

\* the stored posts of the buckets that require media
MediaBucketPosts == {i \in 1..Len(posts) : posts[i].bucket \in {"collection", "trades"}}

\* C16: in every reachable state every stored post whose bucket is collection
\* or trades has at least one attached media item.
C16_MediaPostsHaveMedia ==
    \A i \in MediaBucketPosts : \E m \in post_media : m.post_id = posts[i].id

\* C16, second half: a create-post request answered with the media=1 or the
\* type=1 redirect (no accepted media, or a file of a type not allowed) has
\* written nothing.
C16_RejectedWritesNothing ==
    [][(out'.route = "POST /post/new" /\ out' # out
        /\ out'.location \in {p \o "?media=1" : p \in SlashPrefixed}
                           \cup {p \o "/post/new?type=1" : p \in SlashPrefixed})
       => UNCHANGED <<posts, post_media>>]_vars

\* C27: the canonical signed message is injective on parameter sets. Two
\* requests whose non-signature query parameters differ (different keys or
\* different values) never produce the same canonical message, so a signature
\* that verifies for one parameter set never verifies for a different one.
C27_CanonicalMessageInjective ==
    (probe.op = "injective" /\ probe.q1 # probe.q2)
    => /\ probe.m1 # probe.m2
       /\ ~probe.crossVerifies

\* C27 for parameter sets whose values hold neither "=" nor ",": those
\* single strings give distinct messages
C27_InjectiveOnPlainValues ==
    (/\ probe.op = "injective" /\ probe.q1 # probe.q2
     /\ \A q \in {probe.q1, probe.q2} : \A k \in DOMAIN q : q[k] \in {<<"a">>, <<"b">>})
    => /\ probe.m1 # probe.m2
       /\ ~probe.crossVerifies

(***************************************************************************)
(* Claims checked under SpecLikes                                          *)
(***************************************************************************)
\* the like rows of one customer on one post
LikeRowsOf(p, c) == {r \in likes : r.post_id = p /\ r.customer_id = c}

MoreAnswered == out.route = "GET /bucket/more" /\ out.viewer # ""

\* C17: a cursor parameter that is malformed or unparseable (not base64url of
\* 'ISO-timestamp|id', invalid date, non-numeric or non-integer id) is treated
\* exactly like an absent cursor: the answer is the first page and no error is
\* raised or surfaced. Stated for requests the database answered.
C17_MalformedCursorIsNoCursor ==
    (MoreAnswered /\ out.cursor \in DOMAIN ForeignCursors /\ out.pool /\ out.dbUp)
    => /\ out.answered /\ out.status = 200
       /\ \E f \in out.first : f.answered /\ f.status = 200 /\ f.body = out.body

\* C18: when the persistence layer is unavailable (unconfigured, or a query
\* fails) the timeline reader returns an empty page with an empty nextCursor
\* instead of raising, and the timeline handler answers with an empty
\* timeline rather than propagating the error.
C18_UnavailableGivesEmptyPage ==
    (MoreAnswered /\ (~out.pool \/ ~out.dbUp))
    => /\ out.answered /\ out.status = 200
       /\ out.body = MoreJson("", "")

\* C18 for the unconfigured half alone: no pool, empty page
C18_UnconfiguredGivesEmptyPage ==
    (MoreAnswered /\ ~out.pool)
    => /\ out.answered /\ out.status = 200
       /\ out.body = MoreJson("", "")

\* C24: if any one of the batch-enrichment lookups (like counts, viewer like
\* membership, comment counts, comment previews, media descriptors) fails for
\* a page, the reader still returns the page's posts, with degraded
\* enrichment, instead of failing the whole page: the request is answered
\* with the posts it is answered with when every lookup succeeds. Stated for
\* requests whose page query is answered.
C24_EnrichmentFailureDegrades ==
    (MoreAnswered /\ out.failing # "none" /\ \A f \in out.intact : f.answered)
    => /\ out.answered /\ out.status = 200
       /\ \E f \in out.intact : f.answered /\ f.body = out.body

\* C24 where no lookup is made: an empty page is answered whatever fails
C24_EmptyPageMakesNoLookup ==
    (MoreAnswered /\ out.failing # "none"
        /\ \E f \in out.intact : f.answered /\ f.body = MoreJson("", ""))
    => /\ out.answered /\ out.status = 200
       /\ out.body = MoreJson("", "")

(***************************************************************************)
(* Claims checked under SpecListing                                        *)
(***************************************************************************)
\* the posts an answer lists are all of the shop recorded with it
ListedInShop == \A k \in 1..Len(out.listed) : posts[out.listed[k]].shop = out.shop

\* C28: shop isolation. Every post returned by any post listing (the bucket
\* timeline reader and the per-customer profile listing used by /me and
\* /u/:customerId) has shop equal to the requesting viewer's effective shop.
C28_ListingsStayInShop ==
    (out.route # "none") => ListedInShop

\* C28 for the bucket timeline reader alone, whose WHERE clause names the shop
C28_BucketListingStaysInShop ==
    (out.route # "none" /\ out.reader = "bucket") => ListedInShop

(***************************************************************************)
(* Claims checked under SpecSocial                                         *)
(***************************************************************************)
\* a like or comment row refers to a post that exists in the row's shop
RefersToPostOfItsShop(r) ==
    \E i \in 1..Len(posts) : posts[i].id = r.post_id /\ posts[i].shop = r.shop

\* C29: in every reachable state, every like row and every comment row refers
\* to a post that exists and whose shop equals the shop recorded on the like
\* or comment: the like and comment endpoints never write a row for a post id
\* that does not exist or belongs to another shop.
C29_RowsReferToPostsOfTheirShop ==
    /\ \A r \in likes : RefersToPostOfItsShop(r)
    /\ \A k \in 1..Len(comments) : RefersToPostOfItsShop(comments[k])

\* the tables of the store
StoreTables == <<posts, post_media, likes, comments, profiles, follows, messages>>

\* the last answer is that of a write request from nobody: no effective
\* viewer customer id
WriteFromNobody(o) == "viewer" \in DOMAIN o /\ o.viewer = ""

\* every row names the customer that acted
RowsCarryActingCustomer ==
    /\ \A i \in 1..Len(posts) : posts[i].customer_id # ""
    /\ \A r \in likes : r.customer_id # ""
    /\ \A k \in 1..Len(comments) : comments[k].customer_id # ""
    /\ \A r \in profiles : r.customer_id # ""
    /\ \A r \in follows : r.follower_id # ""
    /\ \A k \in 1..Len(messages) : messages[k].sender_id # ""

\* C30: no write happens on behalf of an unauthenticated viewer. Every write
\* endpoint (create post, like toggle, add comment, profile edit, avatar
\* upload, follow toggle, send message) returns without touching the store
\* when the effective viewer customer id is empty, so every stored post, like,
\* comment, follow and message row carries a non-empty acting customer id.
C30_NoWriteWithoutViewer ==
    /\ []RowsCarryActingCustomer
    /\ [][WriteFromNobody(out') => UNCHANGED StoreTables]_vars

\* a request without a customer, signed by the platform and let through, has
\* been answered over tables that all hold rows
C30_Witness ==
    /\ WriteFromNobody(out) /\ out.admitted
    /\ posts # <<>> /\ likes # {} /\ comments # <<>>
    /\ profiles # {} /\ follows # {} /\ messages # <<>>

(***************************************************************************)
(* Claims checked under SpecToggle                                         *)
(***************************************************************************)
\* C21: under every interleaving of the insert and delete steps of concurrent
\* like toggles, whatever the customers and posts, the store never holds more
\* than one like row for the same (post_id, customer_id).
C21_OneLikeRowPerKey ==
    \A p \in LikePosts, c \in Customers : Cardinality(LikeRowsOf(p, c)) <= 1

\* two calls for the same post and customer, sent from two shops, are in
\* flight together: one has written its row, the other was refused
C21_Witness ==
    \E i, j \in 1..MaxCalls :
        /\ i # j
        /\ SameKey(calls[i], calls[j])
        /\ calls[i].shop # calls[j].shop
        /\ calls[i].overlapped
        /\ calls[i].pc = "done" /\ calls[i].liked
        /\ calls[j].pc = "delete"
        /\ Cardinality(LikeRowsOf(calls[i].post_id, calls[i].customer_id)) = 1

\* the calls for one post and customer that have returned
DoneCalls(p, c) ==
    {k \in 1..MaxCalls : calls[k].pc = "done" /\ calls[k].post_id = p
                         /\ calls[k].customer_id = c}

\* every call for the post and customer has returned, and none of them began
\* while another was in flight
RanOneByOne(p, c) ==
    /\ \A k \in 1..MaxCalls :
          (calls[k].post_id = p /\ calls[k].customer_id = c) => calls[k].pc = "done"
    /\ \A k \in DoneCalls(p, c) : ~calls[k].overlapped

\* two overlapping toggles of a liked post have both deleted: the post ends
\* not liked, where the same toggles one after another leave it liked
Inverted(p, c) ==
    \E a, i, j \in DoneCalls(p, c) :
        /\ DoneCalls(p, c) = {a, i, j} /\ Cardinality({a, i, j}) = 3
        /\ ~calls[a].overlapped /\ calls[a].liked
        /\ calls[i].overlapped /\ ~calls[i].liked
        /\ calls[j].overlapped /\ ~calls[j].liked
        /\ LikeRowsOf(p, c) = {}

\* C22: when two like toggles by the same customer on the same post interleave
\* there is a reachable outcome in which the final liked state differs from
\* the one the same toggles leave when run one after another (the witness);
\* no such inversion occurs when the toggles do not overlap: the post is then
\* liked iff the number of toggles is odd.
C22_NoInversionWithoutOverlap ==
    \A p \in LikePosts, c \in Customers :
        RanOneByOne(p, c) =>
            ((LikeRowsOf(p, c) # {}) <=> (Cardinality(DoneCalls(p, c)) % 2 = 1))

C22_Witness == Inverted(1, "c1")

====
